---------------------------- MODULE Spec2Model ----------------------------
(***************************************************************************)
(* A model of the custom-views plugin: the rule matcher (checkRules and    *)
(* evaluateFilter), the filter chain (applyFilterChain, parseArgs,         *)
(* cleanQuote and the filter registry), the template renderer              *)
(* (renderTemplate) and the view selector (processActiveView).             *)
(*                                                                         *)
(* JavaScript strings are sequences of one-character strings, so that      *)
(* startsWith, includes, split, trim and the scanners are computed         *)
(* character by character as the code computes them.                       *)
(***************************************************************************)
EXTENDS Integers, Sequences, FiniteSets, TLC

VARIABLES
  file,             \* the document: TFile fields, metadata cache, frontmatter
  group,            \* checkRules: the filter group under evaluation
  checkPc,          \* checkRules: "call" before the call, "done" after it
  matchResult,      \* checkRules: the returned boolean
  timezone,         \* host: local time minus UTC, in milliseconds
  value,            \* applyFilterChain: the value argument
  filterChain,      \* applyFilterChain: the chain argument
  steps,            \* applyFilterChain: the scanned steps
  stepIdx,          \* applyFilterChain: index of the next step of the loop
  result,           \* applyFilterChain: the running result
  chainPc,          \* applyFilterChain: "scan", "loop" or "done"
  thrown,           \* applyFilterChain: indices of the steps whose filter threw
  strictMode,       \* build: TRUE when the bundle runs as strict-mode code
  template,         \* renderTemplate: the template argument
  renderPc,         \* renderTemplate: the await it is suspended at, or "done"
  renderClock,      \* renderTemplate: the values Date.now() returns, in call order
  bodyContent,      \* renderTemplate: the document body after the frontmatter
  filledTemplate,   \* renderTemplate: the substituted markup
  markdownQueue,    \* renderTemplate: queued body-context values
  sites,            \* renderTemplate: id and offset of each marker in the markup
  queueIdx,         \* renderTemplate: index of the queue item being rendered
  renderLog,        \* renderTemplate: the steps performed on the container, in order
  settings,         \* plugin: enabled, workInLivePreview, views
  viewState,        \* pane: view.getState() mode and source flag
  container,        \* pane: view.contentEl (custom element, hide class)
  calls,            \* suspended handlers: awaiting saveSettings or renderTemplate
  lastCall,         \* the decision taken by the latest processActiveView call
  loaded,           \* plugin: TRUE from onload to onunload
  data,             \* data.json: what saveData wrote last, null before the first save
  rows,             \* settings tab: the rows display() rendered, each with its view and index
  modals,           \* settings tab: the open edit modals, each with its copy and index
  now,              \* host: the value of Date.now()
  placeholderAdded  \* rule editor: the groups whose placeholder row has added its filter

matchVars  == <<group, checkPc, matchResult, timezone>>
chainVars  == <<value, filterChain, steps, stepIdx, result, chainPc, thrown,
                strictMode>>
renderVars == <<template, renderPc, renderClock, bodyContent, filledTemplate,
                markdownQueue, sites, queueIdx, renderLog>>
pluginVars == <<settings, viewState, container, calls, lastCall, loaded>>
tabVars    == <<data, rows, modals, now>>
editorVars == <<placeholderAdded>>
vars == <<file, group, checkPc, matchResult, timezone,
          value, filterChain, steps, stepIdx, result, chainPc, thrown, strictMode,
          template, renderPc, renderClock, bodyContent, filledTemplate,
          markdownQueue, sites, queueIdx, renderLog,
          settings, viewState, container, calls, lastCall, loaded,
          data, rows, modals, now, placeholderAdded>>

---------------------------------------------------------------------------
(* String primitives of JavaScript over sequences of characters.           *)

Whitespace == {" ", "\t", "\n"}
Digits     == {"0", "1", "2", "3", "4", "5", "6", "7", "8", "9"}

\* the least element of a non-empty set of integers
MinOf(S) == CHOOSE i \in S : \A j \in S : i <= j

\* String.prototype.startsWith
StartsWith(s, p) == Len(p) <= Len(s) /\ SubSeq(s, 1, Len(p)) = p

\* String.prototype.endsWith
EndsWith(s, p) == Len(p) <= Len(s) /\ SubSeq(s, Len(s) - Len(p) + 1, Len(s)) = p

\* String.prototype.indexOf as a 1-based position, 0 when absent
IndexOf(s, p) ==
  LET hits == {i \in 1..(Len(s) - Len(p) + 1) : SubSeq(s, i, i + Len(p) - 1) = p}
  IN  IF hits = {} THEN 0
      ELSE CHOOSE i \in hits : \A j \in hits : i <= j

\* String.prototype.includes
Includes(s, p) == IndexOf(s, p) > 0

\* String.prototype.lastIndexOf for a single character, 0 when absent
LastIndexOfChar(s, c) ==
  LET hits == {i \in 1..Len(s) : s[i] = c}
  IN  IF hits = {} THEN 0
      ELSE CHOOSE i \in hits : \A j \in hits : i >= j

\* String.prototype.trim
Trim(s) ==
  LET keep == {i \in 1..Len(s) : s[i] \notin Whitespace}
  IN  IF keep = {} THEN <<>>
      ELSE SubSeq(s, CHOOSE i \in keep : \A j \in keep : i <= j,
                     CHOOSE i \in keep : \A j \in keep : i >= j)

\* String.prototype.split on a one-character separator: "" splits to [""]
RECURSIVE Split(_, _)
Split(s, sep) ==
  LET hits == {i \in 1..Len(s) : s[i] = sep}
  IN  IF hits = {} THEN <<s>>
      ELSE LET i == CHOOSE k \in hits : \A j \in hits : k <= j
           IN  <<SubSeq(s, 1, i - 1)>> \o Split(SubSeq(s, i + 1, Len(s)), sep)

\* replace(/^c+/, ""): drop the leading run of character c
RECURSIVE StripLeading(_, _)
StripLeading(s, c) ==
  IF s # <<>> /\ Head(s) = c THEN StripLeading(Tail(s), c) ELSE s

\* replace(/c+$/, ""): drop the trailing run of character c
RECURSIVE StripTrailing(_, _)
StripTrailing(s, c) ==
  IF s # <<>> /\ s[Len(s)] = c THEN StripTrailing(SubSeq(s, 1, Len(s) - 1), c) ELSE s

\* Array.prototype.join
RECURSIVE Join(_, _)
Join(q, sep) ==
  IF q = <<>> THEN <<>>
  ELSE IF Len(q) = 1 THEN q[1]
  ELSE q[1] \o sep \o Join(Tail(q), sep)

DigitSeq == <<"0", "1", "2", "3", "4", "5", "6", "7", "8", "9">>

DigitChar(d) == DigitSeq[d + 1]

DigitVal(c) == CHOOSE d \in 0..9 : DigitChar(d) = c

\* String(n) for an integer n
RECURSIVE NatToString(_)
NatToString(n) ==
  IF n < 10 THEN <<DigitChar(n)>>
  ELSE NatToString(n \div 10) \o <<DigitChar(n % 10)>>

IntToString(n) == IF n < 0 THEN <<"-">> \o NatToString(0 - n) ELSE NatToString(n)

\* the value of a non-empty run of digits
RECURSIVE DigitsToNat(_)
DigitsToNat(s) ==
  IF s = <<>> THEN 0
  ELSE 10 * DigitsToNat(SubSeq(s, 1, Len(s) - 1)) + DigitVal(s[Len(s)])

AllDigits(s) == s # <<>> /\ \A i \in 1..Len(s) : s[i] \in Digits

---------------------------------------------------------------------------
(* Values: string | number | boolean | string[] | null | undefined, as     *)
(* tagged records with one shape.                                          *)

StrV(s)  == [t |-> "string",    s |-> s,    n |-> 0, b |-> FALSE, l |-> <<>>]
NumV(n)  == [t |-> "number",    s |-> <<>>, n |-> n, b |-> FALSE, l |-> <<>>]
BoolV(b) == [t |-> "boolean",   s |-> <<>>, n |-> 0, b |-> b,     l |-> <<>>]
ListV(l) == [t |-> "array",     s |-> <<>>, n |-> 0, b |-> FALSE, l |-> l]
NullV    == [t |-> "null",      s |-> <<>>, n |-> 0, b |-> FALSE, l |-> <<>>]
UndefV   == [t |-> "undefined", s |-> <<>>, n |-> 0, b |-> FALSE, l |-> <<>>]
NaNV     == [t |-> "NaN",       s |-> <<>>, n |-> 0, b |-> FALSE, l |-> <<>>]

\* an object or a function, by the text String() gives for it
ObjV(s)  == [t |-> "object",    s |-> s,    n |-> 0, b |-> FALSE, l |-> <<>>]

\* String(v); the elements of an array are strings and are joined with ","
StringOf(v) ==
  CASE v.t = "string"    -> v.s
    [] v.t = "number"    -> IntToString(v.n)
    [] v.t = "boolean"   -> IF v.b THEN <<"t", "r", "u", "e">> ELSE <<"f", "a", "l", "s", "e">>
    [] v.t = "array"     -> Join(v.l, <<",">>)
    [] v.t = "null"      -> <<"n", "u", "l", "l">>
    [] v.t = "undefined" -> <<"u", "n", "d", "e", "f", "i", "n", "e", "d">>
    [] v.t = "NaN"       -> <<"N", "a", "N">>
    [] v.t = "object"    -> v.s

\* JavaScript truthiness: !!v
Truthy(v) ==
  CASE v.t = "string"    -> v.s # <<>>
    [] v.t = "number"    -> v.n # 0
    [] v.t = "boolean"   -> v.b
    [] v.t = "array"     -> TRUE
    [] v.t = "null"      -> FALSE
    [] v.t = "undefined" -> FALSE
    [] v.t = "NaN"       -> FALSE
    [] v.t = "object"    -> TRUE

---------------------------------------------------------------------------
(* The rule matcher: src/matcher.ts                                        *)

\* names a property lookup on an object literal or on a parsed frontmatter
\* finds on Object.prototype; of its members these three are modelled
InheritedNames == { <<"t", "o", "S", "t", "r", "i", "n", "g">>, <<"i", "s", "P", "r", "o", "t", "o", "t", "y", "p", "e", "O", "f">>, <<"_", "_", "p", "r", "o", "t", "o", "_", "_">> }

\* the member of Object.prototype of that name: Object.prototype itself
\* for __proto__, a native function for the other names
inheritedMember(name) ==
  IF name = <<"_", "_", "p", "r", "o", "t", "o", "_", "_">> THEN ObjV(<<"[", "o", "b", "j", "e", "c", "t", " ", "O", "b", "j", "e", "c", "t", "]">>)
  ELSE ObjV(<<"f", "u", "n", "c", "t", "i", "o", "n", " ">> \o name \o <<"(", ")", " ", "{", " ", "[", "n", "a", "t", "i", "v", "e", " ", "c", "o", "d", "e", "]", " ", "}">>)

\* frontmatter?.[key]: undefined without frontmatter; with it the own
\* property, else the inherited member, else undefined
FrontmatterGet(f, key) ==
  IF ~f.hasFrontmatter THEN UndefV
  ELSE IF key \in DOMAIN f.frontmatter THEN f.frontmatter[key]
  ELSE IF key \in InheritedNames THEN inheritedMember(key)
  ELSE UndefV

\* value.split(",").map(v => v.trim()).filter(v => v.length > 0)
CommaTokens(v) ==
  LET parts    == Split(v, ",")
      trimmed  == [i \in 1..Len(parts) |-> Trim(parts[i])]
      Keep(x)  == Len(x) > 0
  IN  SelectSeq(trimmed, Keep)

\* app.metadataCache.getFirstLinkpathDest(linktext, file.path): the path of
\* the file the link text resolves to, or <<>> for null
getFirstLinkpathDest(f, linktext) ==
  IF linktext \in DOMAIN f.linkDest THEN f.linkDest[linktext] ELSE <<>>

\* extractLinks on a string: the captures of /\[\[([^\]]+)\]\]/g from position i
RECURSIVE ExtractLinksFrom(_, _)
ExtractLinksFrom(s, i) ==
  IF i + 4 > Len(s) THEN <<>>
  ELSE IF s[i] = "[" /\ s[i + 1] = "["
       THEN LET stops == {k \in (i + 2)..Len(s) : s[k] = "]"}
                k     == IF stops = {} THEN 0
                         ELSE CHOOSE x \in stops : \A y \in stops : x <= y
            IN  IF k > i + 2 /\ k + 1 <= Len(s) /\ s[k + 1] = "]"
                THEN <<SubSeq(s, i + 2, k - 1)>> \o ExtractLinksFrom(s, k + 2)
                ELSE ExtractLinksFrom(s, i + 1)
       ELSE ExtractLinksFrom(s, i + 1)

\* extractLinks on a frontmatter value, as a set of link texts
extractLinks(v) ==
  CASE v.t \in {"undefined", "null"} -> {}
    [] v.t = "array" ->
         UNION {{ExtractLinksFrom(v.l[i], 1)[j] :
                   j \in 1..Len(ExtractLinksFrom(v.l[i], 1))} : i \in 1..Len(v.l)}
    [] OTHER ->
         {ExtractLinksFrom(StringOf(v), 1)[j] :
            j \in 1..Len(ExtractLinksFrom(StringOf(v), 1))}

\* the "links to" / "does not link to" case of evaluateFilter
evaluateLinksTo(filter, f) ==
  LET targetFile == getFirstLinkpathDest(f, filter.value)
      bodyPaths  == {getFirstLinkpathDest(f, f.links[i]) : i \in 1..Len(f.links)}
      fmTexts    == IF f.hasFrontmatter
                    THEN UNION {extractLinks(f.frontmatter[k]) : k \in DOMAIN f.frontmatter}
                    ELSE {}
      fmPaths    == {getFirstLinkpathDest(f, t) : t \in fmTexts}
      linkPaths  == (bodyPaths \cup fmPaths) \ {<<>>}
      hasLink    == targetFile \in linkPaths
  IN  IF targetFile = <<>> THEN filter.operator = "does not link to"
      ELSE IF filter.operator = "links to" THEN hasLink ELSE ~hasLink

\* the "in folder" case with a plain prefix test, without the "/" after
\* the target
evaluateInFolderPrefix(filter, f) ==
  LET targetFolder         == Trim(filter.value)
      normalizedTarget     == StripTrailing(StripLeading(targetFolder, "/"), "/")
      normalizedFileFolder == StripTrailing(StripLeading(f.parentPath, "/"), "/")
      isInFolder == StartsWith(normalizedFileFolder, normalizedTarget)
  IN  IF targetFolder = <<>> THEN filter.operator = "is not in folder"
      ELSE IF filter.operator = "in folder" THEN isInFolder ELSE ~isInFolder

\* the "in folder" / "is not in folder" case of evaluateFilter
evaluateInFolder(filter, f) ==
  LET targetFolder         == Trim(filter.value)
      normalizedTarget     == StripTrailing(StripLeading(targetFolder, "/"), "/")
      normalizedFileFolder == StripTrailing(StripLeading(f.parentPath, "/"), "/")
      isInFolder == \/ normalizedFileFolder = normalizedTarget
                    \/ StartsWith(normalizedFileFolder, normalizedTarget \o <<"/">>)
  IN  IF targetFolder = <<>> THEN filter.operator = "is not in folder"
      ELSE IF filter.operator = "in folder" THEN isInFolder ELSE ~isInFolder

\* tag.startsWith('#') ? tag : `#${tag}`
HashPrefixed(tag) == IF StartsWith(tag, <<"#">>) THEN tag ELSE <<"#">> \o tag

\* frontmatterTagStrings of the "has tag" case
frontmatterTagStrings(f) ==
  LET frontmatterTags == FrontmatterGet(f, <<"t", "a", "g", "s">>)
  IN  IF ~Truthy(frontmatterTags) THEN <<>>
      ELSE IF frontmatterTags.t = "array"
           THEN [i \in 1..Len(frontmatterTags.l) |-> HashPrefixed(frontmatterTags.l[i])]
      ELSE IF frontmatterTags.t = "string"
           THEN <<HashPrefixed(frontmatterTags.s)>>
      ELSE <<>>

\* fileTagNames of the "has tag" case: body and frontmatter tags without '#'
fileTagNames(f) ==
  LET all == f.cacheTags \o frontmatterTagStrings(f)
  IN  [i \in 1..Len(all) |-> StripLeading(all[i], "#")]

\* a tag predicate that matches on a plain string prefix
tagMatchesStringPrefix(fileTag, filterTag) ==
  StartsWith(fileTag, filterTag) \/ StartsWith(filterTag, fileTag)

\* the inner predicate of hasAnyTag: exact, parent or child tag
tagMatches(fileTag, filterTag) ==
  \/ fileTag = filterTag
  \/ StartsWith(fileTag, filterTag \o <<"/">>)
  \/ StartsWith(filterTag, fileTag \o <<"/">>)

\* the "has tag" / "does not have tag" case of evaluateFilter
evaluateHasTag(filter, f) ==
  LET filterTags == CommaTokens(Trim(filter.value))
      names      == fileTagNames(f)
      hasAnyTag  == \E i \in 1..Len(filterTags) : \E j \in 1..Len(names) :
                      tagMatches(names[j], filterTags[i])
  IN  IF Len(filterTags) = 0 THEN filter.operator = "does not have tag"
      ELSE IF filter.operator = "has tag" THEN hasAnyTag ELSE ~hasAnyTag

\* the "has property" / "does not have property" case of evaluateFilter
evaluateHasProperty(filter, f) ==
  LET propertyName == Trim(filter.value)
      hasProperty  == /\ f.hasFrontmatter
                      /\ propertyName \in DOMAIN f.frontmatter \cup InheritedNames
  IN  IF propertyName = <<>> THEN filter.operator = "does not have property"
      ELSE IF filter.operator = "has property" THEN hasProperty ELSE ~hasProperty

\* evaluateFilter for the "file" pseudo-field
evaluateFileFilter(filter, f) ==
  CASE filter.operator \in {"links to", "does not link to"} -> evaluateLinksTo(filter, f)
    [] filter.operator \in {"in folder", "is not in folder"} -> evaluateInFolder(filter, f)
    [] filter.operator \in {"has tag", "does not have tag"} -> evaluateHasTag(filter, f)
    [] filter.operator \in {"has property", "does not have property"} ->
         evaluateHasProperty(filter, f)
    [] OTHER -> FALSE

\* a frontmatter string or string[] as a list (used for tags and aliases)
StringOrListItems(v) ==
  IF ~Truthy(v) THEN <<>>
  ELSE IF v.t = "array" THEN v.l
  ELSE IF v.t = "string" THEN <<v.s>>
  ELSE <<>>

\* targetValue of evaluateFilter; null and undefined become ""
targetValueOf(filter, f) ==
  LET raw ==
        IF StartsWith(filter.field, <<"f", "i", "l", "e", ".">>)
        THEN CASE filter.field = <<"f", "i", "l", "e", ".", "n", "a", "m", "e">>      -> StrV(f.name)
               [] filter.field = <<"f", "i", "l", "e", ".", "b", "a", "s", "e", "n", "a", "m", "e">>  -> StrV(f.basename)
               [] filter.field = <<"f", "i", "l", "e", ".", "p", "a", "t", "h">>      -> StrV(f.path)
               [] filter.field = <<"f", "i", "l", "e", ".", "f", "o", "l", "d", "e", "r">>    -> StrV(f.parentPath)
               [] filter.field = <<"f", "i", "l", "e", ".", "s", "i", "z", "e">>      -> NumV(f.size)
               [] filter.field = <<"f", "i", "l", "e", ".", "c", "t", "i", "m", "e">>     -> NumV(f.ctime)
               [] filter.field = <<"f", "i", "l", "e", ".", "m", "t", "i", "m", "e">>     -> NumV(f.mtime)
               [] filter.field = <<"f", "i", "l", "e", ".", "e", "x", "t", "e", "n", "s", "i", "o", "n">> -> StrV(f.extension)
               [] OTHER -> NullV
        ELSE IF filter.field = <<"f", "i", "l", "e", " ", "t", "a", "g", "s">>
        THEN LET fm == StringOrListItems(FrontmatterGet(f, <<"t", "a", "g", "s">>))
                 all == f.cacheTags \o fm
             IN  ListV([i \in 1..Len(all) |-> StripLeading(all[i], "#")])
        ELSE IF filter.field = <<"a", "l", "i", "a", "s", "e", "s">>
        THEN \* cache.frontmatter is the frontmatter passed in: the same
             \* reference, so the second source is skipped
             ListV(StringOrListItems(FrontmatterGet(f, <<"a", "l", "i", "a", "s", "e", "s">>)))
        ELSE IF f.hasFrontmatter
        THEN LET fieldValue == FrontmatterGet(f, filter.field)
             IN  IF fieldValue.t # "undefined" THEN fieldValue ELSE NullV
        ELSE NullV
  IN  IF raw.t \in {"undefined", "null"} THEN StrV(<<>>) ELSE raw

\* a list switch whose "all of" operators are satisfied by a single token
evaluateListFilterAnyToken(filter, targetArray) ==
  LET filterValues == CommaTokens(filter.value)
      match == \E k \in 1..Len(filterValues) : \E i \in 1..Len(targetArray) :
                 Includes(targetArray[i], filterValues[k])
  IN  IF filter.operator \in {"contains all of", "contains any of"} THEN match
      ELSE IF filter.operator \in {"does not contain all of", "does not contain any of"}
      THEN ~match
      ELSE FALSE

\* a list switch that applies "starts with" and "ends with" to String(list)
evaluateListFilterJoined(filter, targetArray) ==
  IF filter.operator = "starts with"
  THEN StartsWith(Join(targetArray, <<",">>), filter.value)
  ELSE IF filter.operator = "ends with"
  THEN EndsWith(Join(targetArray, <<",">>), filter.value)
  ELSE evaluateListFilterAnyToken(filter, targetArray)

\* the Array.isArray(targetValue) switch of evaluateFilter
evaluateListFilter(filter, targetArray) ==
  LET filterValue  == filter.value
      filterValues == CommaTokens(filter.value)
      op           == filter.operator
  IN  CASE op = "is empty"     -> Len(targetArray) = 0
        [] op = "is not empty" -> Len(targetArray) > 0
        [] op \in {"is", "is not"} ->
             LET match == \E i \in 1..Len(targetArray) : targetArray[i] = filterValue
             IN  IF op = "is" THEN match ELSE ~match
        [] op \in {"contains", "does not contain"} ->
             LET match == \E i \in 1..Len(targetArray) : Includes(targetArray[i], filterValue)
             IN  IF op = "contains" THEN match ELSE ~match
        [] op \in {"contains any of", "does not contain any of"} ->
             LET match == \E k \in 1..Len(filterValues) : \E i \in 1..Len(targetArray) :
                            Includes(targetArray[i], filterValues[k])
             IN  IF Len(filterValues) = 0 THEN op = "does not contain any of"
                 ELSE IF op = "contains any of" THEN match ELSE ~match
        [] op \in {"contains all of", "does not contain all of"} ->
             LET match == \A k \in 1..Len(filterValues) : \E i \in 1..Len(targetArray) :
                            Includes(targetArray[i], filterValues[k])
             IN  IF Len(filterValues) = 0 THEN op = "does not contain all of"
                 ELSE IF op = "contains all of" THEN match ELSE ~match
        [] op \in {"starts with", "ends with"} -> FALSE
        [] OTHER -> FALSE

\* the scalar switch of evaluateFilter
evaluateScalarFilter(filter, targetScalar) ==
  LET filterValue  == filter.value
      filterValues == CommaTokens(filter.value)
      target       == StringOf(targetScalar)
      op           == filter.operator
  IN  CASE op = "is empty"     -> ~Truthy(targetScalar)
        [] op = "is not empty" -> Truthy(targetScalar)
        [] op \in {"is", "is not"} ->
             LET match == target = filterValue
             IN  IF op = "is" THEN match ELSE ~match
        [] op \in {"contains", "does not contain"} ->
             LET match == Includes(target, filterValue)
             IN  IF op = "contains" THEN match ELSE ~match
        [] op \in {"contains any of", "does not contain any of"} ->
             LET match == \E k \in 1..Len(filterValues) : Includes(target, filterValues[k])
             IN  IF Len(filterValues) = 0 THEN op = "does not contain any of"
                 ELSE IF op = "contains any of" THEN match ELSE ~match
        [] op \in {"contains all of", "does not contain all of"} ->
             LET match == \A k \in 1..Len(filterValues) : Includes(target, filterValues[k])
             IN  IF Len(filterValues) = 0 THEN op = "does not contain all of"
                 ELSE IF op = "contains all of" THEN match ELSE ~match
        [] op = "starts with" -> StartsWith(target, filterValue)
        [] op = "ends with"   -> EndsWith(target, filterValue)
        [] OTHER -> FALSE

\* the milliseconds of a day
DayMs == 86400000

dateOperators ==
  {"on", "not on", "before", "on or before", "after", "on or after",
   "is empty", "is not empty"}

\* new Date(str).getTime() for the date-only strings 1970-01-DD, which are
\* read as UTC midnights; the Invalid Date (NaN) for text without a digit
dateOfString(str) ==
  CASE /\ Len(str) = 10
       /\ SubSeq(str, 1, 8) = <<"1", "9", "7", "0", "-", "0", "1", "-">>
       /\ AllDigits(SubSeq(str, 9, 10))
       /\ DigitsToNat(SubSeq(str, 9, 10)) \in 1..31 ->
         NumV((DigitsToNat(SubSeq(str, 9, 10)) - 1) * DayMs)
    [] str # <<>> /\ \A i \in 1..Len(str) : str[i] \notin Digits -> NaNV

\* new Date(ms).toISOString().split('T')[0] for a timestamp of January 1970
isoDateOf(ms) ==
  <<"1", "9", "7", "0", "-", "0", "1", "-">> \o (IF ms \div DayMs + 1 < 10 THEN <<"0">> ELSE <<>>)
              \o NatToString(ms \div DayMs + 1)

\* setHours(0, 0, 0, 0) followed by getTime(): the local midnight of the
\* local day the instant falls on, for a host at a fixed offset from UTC
localMidnight(ms, tz) == ms - ((ms + tz) % DayMs)

\* a date branch that compares the timestamp itself with the filter's date
evaluateDateFilterExact(filter, targetValue, tz) ==
  LET filterDateStr == Split(filter.value, "T")[1]
      filterDateObj == dateOfString(filterDateStr)
      op            == filter.operator
  IN  IF op = "is empty" THEN targetValue = 0
      ELSE IF op = "is not empty" THEN targetValue # 0
      ELSE IF filterDateStr = <<>> THEN FALSE
      ELSE IF filterDateObj.t = "NaN" THEN op = "not on"
      ELSE CASE op = "on"           -> targetValue = filterDateObj.n
             [] op = "not on"       -> targetValue # filterDateObj.n
             [] op = "before"       -> targetValue < filterDateObj.n
             [] op = "on or before" -> targetValue <= filterDateObj.n
             [] op = "after"        -> targetValue > filterDateObj.n
             [] op = "on or after"  -> targetValue >= filterDateObj.n

\* the date branch of evaluateFilter on a timestamp of January 1970, on a
\* host at offset tz: both dates are UTC midnights moved to local midnights
evaluateDateFilter(filter, targetValue, tz) ==
  LET filterDateStr == Split(filter.value, "T")[1]
      targetDateObj == dateOfString(isoDateOf(targetValue))
      filterDateObj == dateOfString(filterDateStr)
      op            == filter.operator
  IN  IF op = "is empty" THEN targetValue = 0
      ELSE IF op = "is not empty" THEN targetValue # 0
      ELSE IF filterDateStr = <<>> THEN FALSE
      ELSE IF filterDateObj.t = "NaN" THEN op = "not on"
      ELSE CASE op = "on" ->
                  localMidnight(targetDateObj.n, tz) = localMidnight(filterDateObj.n, tz)
             [] op = "not on" ->
                  localMidnight(targetDateObj.n, tz) # localMidnight(filterDateObj.n, tz)
             [] op = "before" ->
                  localMidnight(targetDateObj.n, tz) < localMidnight(filterDateObj.n, tz)
             [] op = "on or before" ->
                  localMidnight(targetDateObj.n, tz) <= localMidnight(filterDateObj.n, tz)
             [] op = "after" ->
                  localMidnight(targetDateObj.n, tz) > localMidnight(filterDateObj.n, tz)
             [] op = "on or after" ->
                  localMidnight(targetDateObj.n, tz) >= localMidnight(filterDateObj.n, tz)

\* evaluateFilter(app, filter, file, frontmatter)
evaluateFilter(filter, f) ==
  IF filter.field = <<"f", "i", "l", "e">> THEN evaluateFileFilter(filter, f)
  ELSE LET targetValue == targetValueOf(filter, f)
       IN  IF /\ filter.field \in { <<"f", "i", "l", "e", ".", "c", "t", "i", "m", "e">>, <<"f", "i", "l", "e", ".", "m", "t", "i", "m", "e">> }
              /\ filter.operator \in dateOperators
              /\ targetValue.t = "number"
           THEN evaluateDateFilter(filter, targetValue.n, timezone)
           ELSE IF targetValue.t = "array"
           THEN evaluateListFilter(filter, targetValue.l)
           ELSE evaluateScalarFilter(filter, targetValue)

\* results.every / results.some of checkRules
combineResults(operator, results) ==
  IF operator = "AND"
  THEN \A i \in 1..Len(results) : results[i]
  ELSE \E i \in 1..Len(results) : results[i]

\* a checkRules without the early return on an empty conditions list
RECURSIVE checkRulesNoEarlyReturn(_, _)
checkRulesNoEarlyReturn(g, f) ==
  combineResults(g.operator,
                 [i \in 1..Len(g.conditions) |->
                    IF g.conditions[i].type = "group"
                    THEN checkRulesNoEarlyReturn(g.conditions[i], f)
                    ELSE evaluateFilter(g.conditions[i], f)])

\* checkRules(app, group, file, frontmatter)
RECURSIVE checkRules(_, _)
checkRules(g, f) ==
  IF Len(g.conditions) = 0 THEN TRUE
  ELSE LET results == [i \in 1..Len(g.conditions) |->
                         IF g.conditions[i].type = "group"
                         THEN checkRules(g.conditions[i], f)
                         ELSE evaluateFilter(g.conditions[i], f)]
       IN  combineResults(g.operator, results)

---------------------------------------------------------------------------
(* Documents and rule trees the matcher is run on.                         *)

MaxDepth == 1
MaxConds == 2

Conjunctions == {"AND", "OR", "NOR"}

Filter(field, operator, v) ==
  [type |-> "filter", field |-> field, operator |-> operator, value |-> v,
   conditions |-> <<>>]

Group(operator, conditions) ==
  [type |-> "group", field |-> <<>>, operator |-> operator, value |-> <<>>,
   conditions |-> conditions]

NoFrontmatter == [k \in {} |-> UndefV]

NoLinks == [k \in {} |-> <<>>]

Doc(basename, parentPath, size, cacheTags, hasFrontmatter, frontmatter) ==
  [name |-> basename \o <<".", "m", "d">>, basename |-> basename,
   path |-> (IF parentPath = <<>> THEN <<>> ELSE parentPath \o <<"/">>)
            \o basename \o <<".", "m", "d">>,
   parentPath |-> parentPath, extension |-> <<"m", "d">>,
   size |-> size, ctime |-> 0, mtime |-> 0,
   cacheTags |-> cacheTags, links |-> <<>>, linkDest |-> NoLinks,
   hasFrontmatter |-> hasFrontmatter, frontmatter |-> frontmatter,
   content |-> <<>>, fmEnd |-> 0]

D1 ==
  Doc(<<"n">>, <<"m", "o", "v", "i", "e", "s">>, 10, << <<"#", "m", "o", "v", "i", "e", "s", "/", "a", "c", "t", "i", "o", "n">> >>, TRUE,
      (<<"l", "a", "b", "e", "l", "s">> :> ListV(<< <<"x", "a">>, <<"y", "b">> >>)) @@ (<<"r", "a", "t", "i", "n", "g">> :> NumV(7)))

D2 ==
  Doc(<<"n">>, <<"a", "/", "b">>, 0, <<>>, TRUE,
      (<<"l", "a", "b", "e", "l", "s">> :> ListV(<< <<"x", "a">> >>)) @@ (<<"t", "a", "g", "s">> :> ListV(<< <<"m", "o", "v", "i", "e", "s">> >>)))

D3 == Doc(<<"m">>, <<>>, 9, << <<"#", "m", "o", "v", "i", "e", "s">> >>, FALSE, NoFrontmatter)

D4 ==
  Doc(<<"m">>, <<"a", "b">>, 11, <<>>, TRUE,
      (<<"l", "a", "b", "e", "l", "s">> :> ListV(<<>>)) @@ (<<"t", "a", "g", "s">> :> StrV(<<"#", "m", "o", "v", "i", "e">>)))

D5 ==
  Doc(<<"m">>, <<"a">>, 10, << <<"#", "m", "o", "v", "i", "e", "s", "x">>, <<"#", "x">> >>, TRUE,
      (<<"l", "a", "b", "e", "l", "s">> :> ListV(<< <<"b">>, <<"a">> >>)) @@ (<<"t", "a", "g", "s">> :> ListV(<< <<"n", "e", "w", "/", "m", "o", "v", "i", "e", "s">> >>)))

\* the documents with their creation and modification times
DocSet ==
  { \* n.md links to m.md in its body; q resolves as well
    [D1 EXCEPT !.ctime = 0, !.mtime = DayMs - 1, !.links = << <<"m">> >>,
               !.linkDest = (<<"m">> :> <<"m", ".", "m", "d">>) @@ (<<"q">> :> <<"q", ".", "m", "d">>)],
    [D2 EXCEPT !.ctime = 1, !.mtime = DayMs],
    [D3 EXCEPT !.ctime = DayMs + 36000000, !.mtime = 2 * DayMs - 1],
    [D4 EXCEPT !.ctime = 2 * DayMs, !.mtime = 2 * DayMs + 1],
    [D5 EXCEPT !.ctime = 0, !.mtime = 0, !.linkDest = (<<"m">> :> <<"m", ".", "m", "d">>)],
    \* a document of the vault root, whose parent has the path "/"
    [D3 EXCEPT !.parentPath = <<"/">>] }

\* the hosts: UTC-5, UTC and UTC+9
Timezones == {0 - 18000000, 0, 32400000}

\* the number operators of OPERATORS; "!=", "<=" and ">=" stand for the
\* one-character signs U+2260, U+2264 and U+2265 of the source
NumericOperators == {"=", "!=", "<", "<=", ">", ">="}

\* the leaves of the nested rule trees: one true of every document, one
\* true of some
TreeLeaves ==
  { Filter(<<"f", "i", "l", "e", ".", "e", "x", "t", "e", "n", "s", "i", "o", "n">>, "is", <<"m", "d">>),
    Filter(<<"f", "i", "l", "e", ".", "s", "i", "z", "e">>, "is", <<"1", "0">>) }

\* single filters, one per operator family
LeafFilters ==
  {Filter(<<"f", "i", "l", "e", ".", "s", "i", "z", "e">>, op, v) :
     op \in NumericOperators \cup {"is", "is empty"}, v \in { <<"1", "0">>, <<"9">> }}
  \cup
  {Filter(<<"f", "i", "l", "e">>, op, v) :
     op \in {"has tag", "does not have tag"},
     v \in { <<"m", "o", "v", "i", "e", "s">>, <<"m", "o", "v", "i", "e">>, <<"m", "o", "v", "i", "e", "s", "/", "a", "c", "t", "i", "o", "n">>, <<"x", ",", " ", "m", "o", "v", "i", "e", "s">>, <<>>, <<"n", "e", "w">>,
             <<"m", "o", "v", "i", "e", "s", "/">> }}
  \cup
  {Filter(<<"l", "a", "b", "e", "l", "s">>, op, v) :
     op \in {"contains all of", "contains any of", "does not contain all of",
             "does not contain any of", "contains", "does not contain", "is",
             "is not", "starts with"},
     v \in { <<"a", ",", "b">>, <<"a">>, <<>>, <<" ", "a", " ", ",", " ", "b", " ">>, <<"b", ",">>, <<"x", "a">> }}
  \cup
  {Filter(<<"f", "i", "l", "e">>, op, v) :
     op \in {"in folder", "is not in folder", "has property", "does not have property"},
     v \in { <<"a">>, <<"/", "m", "o", "v", "i", "e", "s", "/">>, <<"r", "a", "t", "i", "n", "g">>, <<>> }}
  \cup
  {Filter(<<"f", "i", "l", "e">>, op, v) :
     op \in {"in folder", "is not in folder"},
     v \in { <<"/", "a", "/">>, <<" ", "a", " ">>, <<"/">>, <<" ">>, <<"a", "/", "b">>, <<"a", "b">>, <<"a", "/">>, <<"m", "o", "v", "i", "e", "s">> }}
  \cup
  {Filter(field, op, v) :
     field \in { <<"f", "i", "l", "e", ".", "c", "t", "i", "m", "e">>, <<"f", "i", "l", "e", ".", "m", "t", "i", "m", "e">> },
     op \in dateOperators \cup {"is"},
     v \in { <<"1", "9", "7", "0", "-", "0", "1", "-", "0", "1">>, <<"1", "9", "7", "0", "-", "0", "1", "-", "0", "2">>, <<"1", "9", "7", "0", "-", "0", "1", "-", "0", "3">>, <<"1", "9", "7", "0", "-", "0", "1", "-", "0", "2", "T", "1", "0", ":", "0", "0">>,
             <<"x">>, <<>> }}
  \cup
  {Filter(field, op, v) :
     field \in { <<"l", "a", "b", "e", "l", "s">>, <<"f", "i", "l", "e", ".", "n", "a", "m", "e">>, <<"f", "i", "l", "e">>, <<"f", "i", "l", "e", ".", "s", "i", "z", "e">>, <<"m", "i", "s", "s", "i", "n", "g">> },
     op \in {"matches", "ends with", "on", "after", "=", "has tag", "in folder",
             "has property", "contains"},
     v \in { <<"n">>, <<"y", "b">>, <<"1", "9", "7", "0", "-", "0", "1", "-", "0", "1">>, <<"1", "0">> }}
  \cup
  {Filter(<<"f", "i", "l", "e", ".", "c", "t", "i", "m", "e">>, op, v) :
     op \in {"matches", "ends with", "=", "has tag", "contains"},
     v \in { <<"0">>, <<"1", "9", "7", "0", "-", "0", "1", "-", "0", "1">> }}
  \cup
  {Filter(<<"f", "i", "l", "e">>, op, v) :
     op \in {"links to", "does not link to"}, v \in { <<"m">>, <<"q">>, <<"z", "z">>, <<>> }}
  \cup
  {Filter(<<"f", "i", "l", "e", ".", "n", "a", "m", "e">>, op, v) :
     op \in {"contains", "does not contain", "starts with", "ends with", "is not"},
     v \in { <<"n">>, <<".", "m", "d">> }}

RECURSIVE GroupsOfDepth(_)
GroupsOfDepth(d) ==
  IF d = 0
  THEN {Group(op, cs) : op \in Conjunctions,
                        cs \in UNION {[1..n -> TreeLeaves] : n \in 0..MaxConds}}
  ELSE LET inner == GroupsOfDepth(d - 1)
       IN  inner
           \cup {Group(op, <<c>>) : op \in Conjunctions, c \in inner}
           \cup UNION {{Group(op, <<l, c>>), Group(op, <<c, l>>)} :
                         op \in Conjunctions, l \in TreeLeaves, c \in inner}

RuleInputs ==
  GroupsOfDepth(MaxDepth) \cup {Group("AND", <<l>>) : l \in LeafFilters}

---------------------------------------------------------------------------
(* The view selector: processActiveView, injectCustomView and              *)
(* restoreDefaultView of the plugin class.                                 *)

MaxViews    == 2
MaxInFlight == 2

\* a loop without the break: the template of the last view that matches
matchedTemplateNoBreak(views, i, f) ==
  LET hits == {j \in i..Len(views) : checkRules(views[j].rules, f)}
  IN  IF hits = {} THEN <<>>
      ELSE views[CHOOSE j \in hits : \A k \in hits : j >= k].template

\* a loop that goes on to the next view when a matching view's template
\* is empty
RECURSIVE matchedTemplateSkipEmpty(_, _, _)
matchedTemplateSkipEmpty(views, i, f) ==
  IF i > Len(views) THEN <<>>
  ELSE IF checkRules(views[i].rules, f) /\ views[i].template # <<>>
  THEN views[i].template
  ELSE matchedTemplateSkipEmpty(views, i + 1, f)

\* the for loop of processActiveView from index i: the template of the
\* first view whose rules match, "" when the loop ends without a match
RECURSIVE matchedTemplateFrom(_, _, _)
matchedTemplateFrom(views, i, f) ==
  IF i > Len(views) THEN <<>>
  ELSE IF checkRules(views[i].rules, f) THEN views[i].template
  ELSE matchedTemplateFrom(views, i + 1, f)

\* matchedTemplate after the loop
matchedTemplateOf(views, f) == matchedTemplateFrom(views, 1, f)

isTrueSourceMode(state)  == state.mode = "source" /\ state.source = TRUE
isReadingMode(state)     == state.mode = "preview"
isLivePreviewMode(state) == state.mode = "source" /\ state.source = FALSE

\* processActiveView without the test of the workInLivePreview setting
processDecisionAnyPreview(s, state, f) ==
  IF ~s.enabled THEN "restore"
  ELSE IF matchedTemplateOf(s.views, f) = <<>> THEN "restore"
  ELSE IF isTrueSourceMode(state) THEN "restore"
  ELSE IF ~isReadingMode(state) /\ ~isLivePreviewMode(state) THEN "restore"
  ELSE "inject"

\* the branch processActiveView takes: "restore" for every path that ends
\* in restoreDefaultView, "inject" for the one that calls injectCustomView
processDecision(s, state, f) ==
  IF ~s.enabled THEN "restore"
  ELSE IF matchedTemplateOf(s.views, f) = <<>> THEN "restore"
  ELSE IF isTrueSourceMode(state) THEN "restore"
  ELSE IF ~s.workInLivePreview /\ ~isReadingMode(state) THEN "restore"
  ELSE IF ~isReadingMode(state) /\ ~isLivePreviewMode(state) THEN "restore"
  ELSE "inject"

\* restoreDefaultView: the hide class and the custom element are removed
restoreDefaultView(c) == [el |-> 0, hidden |-> FALSE, content |-> <<>>]

\* an element identity that neither the container nor a pending render holds
FreshEl(c, pending) ==
  LET used == {c.el} \cup {pending[i].el : i \in 1..Len(pending)}
      free == (1..(Len(pending) + 2)) \ used
  IN  CHOOSE e \in free : \A d \in free : e <= d

\* processActiveView(f) up to its first await, under settings s and pane
\* state st; pending holds the continuations that stay suspended
ProcessActiveView(f, s, st, pending) ==
  LET decision == processDecision(s, st, f)
      matched  == IF s.enabled THEN matchedTemplateOf(s.views, f) ELSE <<>>
      customEl == IF container.el # 0 THEN container.el ELSE FreshEl(container, pending)
  IN  /\ IF decision = "restore"
         THEN /\ container' = restoreDefaultView(container)
              /\ calls' = pending
         ELSE \* injectCustomView up to await renderTemplate
              /\ container' = [container EXCEPT !.el = customEl]
              /\ calls' = Append(pending, [kind |-> "render", el |-> customEl,
                                           template |-> matched])
      \* the call as it was made, and the container as it left it
      /\ lastCall' = [kind |-> decision, file |-> f, enabled |-> s.enabled,
                      matchedTemplate |-> matched, state |-> st,
                      workInLivePreview |-> s.workInLivePreview,
                      left |-> container']

RemoveAt(q, i) == SubSeq(q, 1, i - 1) \o SubSeq(q, i + 1, Len(q))

\* workspace "file-open": the pane shows f
FileOpen(f) ==
  /\ loaded
  /\ Len(calls) < MaxInFlight
  /\ file' = f
  /\ ProcessActiveView(f, settings, viewState, calls)
  /\ UNCHANGED <<settings, viewState, loaded, matchVars, chainVars, renderVars, tabVars, editorVars>>

\* workspace "layout-change": the pane's mode becomes st
LayoutChange(st) ==
  /\ loaded
  /\ Len(calls) < MaxInFlight
  /\ viewState' = st
  /\ ProcessActiveView(file, settings, st, calls)
  /\ UNCHANGED <<file, settings, loaded, matchVars, chainVars, renderVars, tabVars, editorVars>>

\* setPluginState(enabled) up to await saveSettings
SetPluginState(enabled) ==
  /\ loaded
  /\ Len(calls) < MaxInFlight
  /\ settings' = [settings EXCEPT !.enabled = enabled]
  /\ calls' = Append(calls, [kind |-> "save", el |-> 0, template |-> <<>>])
  /\ UNCHANGED <<file, viewState, container, lastCall, loaded,
                 matchVars, chainVars, renderVars, tabVars, editorVars>>

\* the "Work in live preview" toggle up to await saveSettings
SetWorkInLivePreview(v) ==
  /\ loaded
  /\ Len(calls) < MaxInFlight
  /\ settings' = [settings EXCEPT !.workInLivePreview = v]
  /\ calls' = Append(calls, [kind |-> "save", el |-> 0, template |-> <<>>])
  /\ UNCHANGED <<file, viewState, container, lastCall, loaded,
                 matchVars, chainVars, renderVars, tabVars, editorVars>>

\* saveSettings resolves: the handler goes on to processActiveView(file)
SaveDone(i) ==
  /\ calls[i].kind = "save"
  /\ ProcessActiveView(file, settings, viewState, RemoveAt(calls, i))
  /\ UNCHANGED <<file, settings, viewState, loaded, matchVars, chainVars, renderVars, tabVars, editorVars>>

\* renderTemplate resolves: the element it rendered into holds the template's
\* output and injectCustomView adds the hide class to the container
RenderDone(i) ==
  /\ calls[i].kind = "render"
  /\ container' = [container EXCEPT
                     !.hidden = TRUE,
                     !.content = IF calls[i].el = container.el
                                 THEN calls[i].template ELSE @]
  /\ calls' = RemoveAt(calls, i)
  /\ UNCHANGED <<file, settings, viewState, lastCall, loaded,
                 matchVars, chainVars, renderVars, tabVars, editorVars>>

\* onunload: restoreDefaultView on the pane
Unload ==
  /\ loaded
  /\ loaded' = FALSE
  /\ container' = restoreDefaultView(container)
  /\ UNCHANGED <<file, settings, viewState, calls, lastCall,
                 matchVars, chainVars, renderVars, tabVars, editorVars>>

ViewStates == [mode : {"preview", "source"}, source : BOOLEAN]

ViewConfig(id, rules, tpl) ==
  [id |-> id, name |-> id, rules |-> rules, template |-> tpl]

\* view configurations: one matching documents of size 10, one matching
\* every document, one with an empty template
ViewPool ==
  { ViewConfig("v1", Group("AND", <<Filter(<<"f", "i", "l", "e", ".", "s", "i", "z", "e">>, "is", <<"1", "0">>)>>), <<"A">>),
    ViewConfig("v2", Group("AND", <<>>), <<"B">>),
    ViewConfig("v3", Group("OR", <<Filter(<<"f", "i", "l", "e">>, "in folder", <<"m", "o", "v", "i", "e", "s">>)>>), <<>>) }

\* the ordered lists of at most MaxViews views with distinct ids
ViewLists ==
  {vs \in UNION {[1..n -> ViewPool] : n \in 0..MaxViews} :
     \A i, j \in 1..Len(vs) : i # j => vs[i].id # vs[j].id}

---------------------------------------------------------------------------
(* The filter chain: parseArgs, cleanQuote, the filters registry and       *)
(* applyFilterChain.                                                       *)

LowerLetters == <<"a", "b", "c", "d", "e", "f", "g", "h", "i", "j", "k", "l", "m",
                  "n", "o", "p", "q", "r", "s", "t", "u", "v", "w", "x", "y", "z">>

UpperLetters == <<"A", "B", "C", "D", "E", "F", "G", "H", "I", "J", "K", "L", "M",
                  "N", "O", "P", "Q", "R", "S", "T", "U", "V", "W", "X", "Y", "Z">>

LetterCount == Len(LowerLetters)

\* String.prototype.toUpperCase
ToUpperCase(s) ==
  [i \in 1..Len(s) |->
     IF \E k \in 1..LetterCount : LowerLetters[k] = s[i]
     THEN UpperLetters[CHOOSE k \in 1..LetterCount : LowerLetters[k] = s[i]]
     ELSE s[i]]

\* String.prototype.toLowerCase
ToLowerCase(s) ==
  [i \in 1..Len(s) |->
     IF \E k \in 1..LetterCount : UpperLetters[k] = s[i]
     THEN LowerLetters[CHOOSE k \in 1..LetterCount : UpperLetters[k] = s[i]]
     ELSE s[i]]

\* Number(str) for the strings that hold no '.', 'e' notation or radix
\* prefix: whitespace is trimmed, "" is 0, a signed run of digits is its
\* value, anything else is NaN
NumberOf(str) ==
  LET s    == Trim(str)
      body == IF s # <<>> /\ s[1] \in {"+", "-"} THEN Tail(s) ELSE s
  IN  IF s = <<>> THEN NumV(0)
      ELSE IF AllDigits(body)
           THEN NumV(IF s[1] = "-" THEN 0 - DigitsToNat(body) ELSE DigitsToNat(body))
      ELSE NaNV

\* parseFloat(str) for the strings that hold no '.' or 'e' notation after
\* their digits: leading whitespace is skipped, then an optional sign and
\* the longest run of digits; NaN when no digit is there
ParseFloat(str) ==
  LET lead   == {i \in 1..Len(str) : str[i] \notin Whitespace}
      start  == IF lead = {} THEN Len(str) + 1
                ELSE CHOOSE i \in lead : \A j \in lead : i <= j
      s      == SubSeq(str, start, Len(str))
      signed == s # <<>> /\ s[1] \in {"+", "-"}
      body   == IF signed THEN Tail(s) ELSE s
      stops  == {i \in 1..Len(body) : body[i] \notin Digits}
      run    == IF stops = {} THEN body
                ELSE SubSeq(body, 1, (CHOOSE i \in stops : \A j \in stops : i <= j) - 1)
  IN  IF run = <<>> THEN NaNV
      ELSE NumV(IF signed /\ s[1] = "-" THEN 0 - DigitsToNat(run) ELSE DigitsToNat(run))

\* cleanQuote(str)
cleanQuote(str0) ==
  LET str == Trim(str0)
  IN  IF \/ (StartsWith(str, <<"\"">>) /\ EndsWith(str, <<"\"">>))
         \/ (StartsWith(str, <<"'">>) /\ EndsWith(str, <<"'">>))
      THEN \* str.slice(1, -1)
           StrV(SubSeq(str, 2, Len(str) - 1))
      ELSE IF NumberOf(str).t # "NaN" THEN NumberOf(str)
      ELSE StrV(str)

\* the for loop of parseArgs from position i
RECURSIVE parseArgsLoop(_, _, _, _, _)
parseArgsLoop(content, i, current, inQuote, args) ==
  IF i > Len(content)
  THEN IF current # <<>> THEN Append(args, cleanQuote(current)) ELSE args
  ELSE LET char == content[i]
       IN  IF char \in {"\"", "'"}
           THEN parseArgsLoop(content, i + 1, Append(current, char), ~inQuote, args)
           ELSE IF char = "," /\ ~inQuote
           THEN parseArgsLoop(content, i + 1, <<>>, inQuote,
                              Append(args, cleanQuote(current)))
           ELSE parseArgsLoop(content, i + 1, Append(current, char), inQuote, args)

\* parseArgs(argString): one enclosing pair of parentheses is stripped first
parseArgs(argString) ==
  LET trimmed == Trim(argString)
      content == IF /\ Len(trimmed) >= 2
                    /\ trimmed[1] = "("
                    /\ trimmed[Len(trimmed)] = ")"
                    /\ "\n" \notin {trimmed[k] : k \in 1..Len(trimmed)}
                 THEN SubSeq(trimmed, 2, Len(trimmed) - 1)
                 ELSE trimmed
  IN  IF argString = <<>> THEN <<>>
      ELSE parseArgsLoop(content, 1, <<>>, FALSE, <<>>)

\* the scanning loop of applyFilterChain from position i
RECURSIVE scanSteps(_, _, _, _, _)
scanSteps(chain, i, current, inQuote, acc) ==
  IF i > Len(chain)
  THEN IF current # <<>> THEN Append(acc, Trim(current)) ELSE acc
  ELSE LET char  == chain[i]
           quote == IF char \in {"\"", "'"} THEN ~inQuote ELSE inQuote
       IN  IF char = "|" /\ ~quote
           THEN scanSteps(chain, i + 1, <<>>, quote, Append(acc, Trim(current)))
           ELSE scanSteps(chain, i + 1, Append(current, char), quote, acc)

\* the steps array of applyFilterChain
stepsOf(chain) == scanSteps(chain, 1, <<>>, FALSE, <<>>)

\* the outcome of a filter call: a returned value, or an exception
Returned(v) == [threw |-> FALSE, v |-> v]
Threw       == [threw |-> TRUE, v |-> UndefV]

\* the i-th argument of a call, undefined when it was not passed
Arg(args, i) == IF i <= Len(args) THEN args[i] ELSE UndefV

\* String.prototype.replace with a global literal pattern: every
\* non-overlapping occurrence from the left; the empty pattern matches
\* before every character and at the end
RECURSIVE ReplaceAll(_, _, _)
ReplaceAll(s, search, replaceStr) ==
  IF search = <<>>
  THEN IF s = <<>> THEN replaceStr
       ELSE replaceStr \o <<Head(s)>> \o ReplaceAll(Tail(s), search, replaceStr)
  ELSE LET i == IndexOf(s, search)
       IN  IF i = 0 THEN s
           ELSE SubSeq(s, 1, i - 1) \o replaceStr
                \o ReplaceAll(SubSeq(s, i + Len(search), Len(s)), search, replaceStr)

\* String.prototype.replace with a non-global literal pattern
ReplaceFirst(s, search, replaceStr) ==
  LET i == IF search = <<>> THEN 1 ELSE IndexOf(s, search)
  IN  IF i = 0 THEN s
      ELSE SubSeq(s, 1, i - 1) \o replaceStr \o SubSeq(s, i + Len(search), Len(s))

\* characters with a meaning of their own in a regular expression
RegexMeta == {".", "*", "+", "?", "^", "$", "{", "}", "(", ")", "|", "[", "]", "\\"}

RegexFlags == {"d", "g", "i", "m", "s", "u", "y"}

\* filters.replace(val, search, replaceWith)
filterReplace(val, search, replaceWith) ==
  LET searchStr  == IF Truthy(search) THEN StringOf(search) ELSE <<>>
      replaceStr == IF Truthy(replaceWith) THEN StringOf(replaceWith) ELSE <<>>
      lastSlash  == LastIndexOfChar(searchStr, "/")
      \* substring(1, lastSlash); substring swaps its bounds when lastSlash is 0
      pattern    == IF lastSlash = 1 THEN <<"/">>
                    ELSE SubSeq(searchStr, 2, lastSlash - 1)
      flags      == SubSeq(searchStr, lastSlash + 1, Len(searchStr))
      plain      == \A k \in 1..Len(pattern) : pattern[k] \notin RegexMeta
      flagsOk    == /\ \A k \in 1..Len(flags) : flags[k] \in RegexFlags
                    /\ \A j, k \in 1..Len(flags) : j # k => flags[j] # flags[k]
  IN  IF StartsWith(searchStr, <<"/">>)
      THEN \* new RegExp(pattern, flags) for a pattern that is plain text and
           \* no flag but g; the constructor throws on an invalid flag and on
           \* an unbalanced pattern
           IF ~flagsOk \/ ~plain THEN Threw
           ELSE IF \E k \in 1..Len(flags) : flags[k] = "g"
                THEN Returned(StrV(ReplaceAll(StringOf(val), pattern, replaceStr)))
                ELSE Returned(StrV(ReplaceFirst(StringOf(val), pattern, replaceStr)))
      ELSE Returned(StrV(ReplaceAll(StringOf(val), searchStr, replaceStr)))

\* a number that is no integer (a quotient, a negative power, Infinity)
FractionV == [t |-> "fraction", s |-> <<>>, n |-> 0, b |-> FALSE, l |-> <<>>]

\* Math.pow for a non-negative integer exponent
RECURSIVE Pow(_, _)
Pow(base, e) == IF e = 0 THEN 1 ELSE base * Pow(base, e - 1)

\* filters.calc(val, opString); opString.trim() throws unless opString is a
\* string
filterCalc(val, opString) ==
  IF opString.t # "string" THEN Threw
  ELSE LET trimmed == Trim(opString.s)
           base    == ParseFloat(StringOf(val))
           power   == ParseFloat(SubSeq(trimmed, 3, Len(trimmed)))
           op      == IF trimmed = <<>> THEN "" ELSE trimmed[1]
           num     == ParseFloat(SubSeq(trimmed, 2, Len(trimmed)))
       IN  IF base.t = "NaN" THEN Returned(val)
           ELSE IF StartsWith(trimmed, <<"*", "*">>)
           THEN IF power.t = "NaN" THEN Returned(val)
                ELSE IF power.n < 0 THEN Returned(FractionV)
                ELSE Returned(NumV(Pow(base.n, power.n)))
           ELSE IF num.t = "NaN" THEN Returned(val)
           ELSE CASE op = "+" -> Returned(NumV(base.n + num.n))
                  [] op = "-" -> Returned(NumV(base.n - num.n))
                  [] op = "*" -> Returned(NumV(base.n * num.n))
                  [] op = "/" ->
                       IF num.n # 0 /\ base.n % num.n = 0
                       THEN Returned(NumV(base.n \div num.n))
                       ELSE Returned(FractionV)
                  [] op = "^" ->
                       IF num.n < 0 THEN Returned(FractionV)
                       ELSE Returned(NumV(Pow(base.n, num.n)))
                  [] op \notin {"+", "-", "*", "/", "^"} -> Returned(val)

\* the names of the filters registry
RegistryNames ==
  { <<"d", "a", "t", "e">>, <<"d", "a", "t", "e", "_", "m", "o", "d", "i", "f", "y">>, <<"c", "a", "p", "i", "t", "a", "l", "i", "z", "e">>, <<"u", "p", "p", "e", "r">>, <<"l", "o", "w", "e", "r">>, <<"t", "i", "t", "l", "e">>,
    <<"c", "a", "m", "e", "l">>, <<"k", "e", "b", "a", "b">>, <<"s", "n", "a", "k", "e">>, <<"t", "r", "i", "m">>, <<"r", "e", "p", "l", "a", "c", "e">>, <<"w", "i", "k", "i", "l", "i", "n", "k">>, <<"l", "i", "n", "k">>,
    <<"i", "m", "a", "g", "e">>, <<"b", "l", "o", "c", "k", "q", "u", "o", "t", "e">>, <<"s", "t", "r", "i", "p", "_", "t", "a", "g", "s">>, <<"s", "p", "l", "i", "t">>, <<"j", "o", "i", "n">>, <<"f", "i", "r", "s", "t">>,
    <<"l", "a", "s", "t">>, <<"s", "l", "i", "c", "e">>, <<"c", "o", "u", "n", "t">>, <<"c", "a", "l", "c">> }

\* fn(result, ...args) for the registry's filters upper, lower, trim,
\* capitalize, replace, wikilink, join, first, last, count and calc
callFilter(name, val, args) ==
  CASE name = <<"u", "p", "p", "e", "r">> -> Returned(StrV(ToUpperCase(StringOf(val))))
    [] name = <<"l", "o", "w", "e", "r">> -> Returned(StrV(ToLowerCase(StringOf(val))))
    [] name = <<"t", "r", "i", "m">>  -> Returned(StrV(Trim(StringOf(val))))
    [] name = <<"c", "a", "p", "i", "t", "a", "l", "i", "z", "e">> ->
         LET s == StringOf(val)
         IN  Returned(StrV(IF s = <<>> THEN <<>>
                           ELSE ToUpperCase(<<s[1]>>) \o ToLowerCase(Tail(s))))
    [] name = <<"r", "e", "p", "l", "a", "c", "e">> -> filterReplace(val, Arg(args, 1), Arg(args, 2))
    [] name = <<"w", "i", "k", "i", "l", "i", "n", "k">> ->
         LET alias  == Arg(args, 1)
             suffix == IF alias.t = "string" /\ alias.s # <<>>
                       THEN <<"|">> \o alias.s ELSE <<>>
         IN  IF val.t = "array"
             THEN Returned(StrV(Join([i \in 1..Len(val.l) |->
                                        <<"[", "[">> \o val.l[i] \o suffix \o <<"]", "]">>], <<",", " ">>)))
             ELSE Returned(StrV(<<"[", "[">> \o StringOf(val) \o suffix \o <<"]", "]">>))
    [] name = <<"j", "o", "i", "n">> ->
         LET separator == Arg(args, 1)
         IN  IF val.t = "array"
             THEN Returned(StrV(Join(val.l, IF separator.t = "string"
                                            THEN separator.s ELSE <<",">>)))
             ELSE Returned(val)
    [] name = <<"f", "i", "r", "s", "t">> ->
         IF val.t = "array"
         THEN Returned(IF Len(val.l) > 0 THEN StrV(val.l[1]) ELSE UndefV)
         ELSE Returned(val)
    [] name = <<"l", "a", "s", "t">> ->
         IF val.t = "array"
         THEN Returned(IF Len(val.l) > 0 THEN StrV(val.l[Len(val.l)]) ELSE UndefV)
         ELSE Returned(val)
    [] name = <<"c", "o", "u", "n", "t">> ->
         Returned(NumV(IF val.t = "array" THEN Len(val.l) ELSE Len(StringOf(val))))
    [] name = <<"c", "a", "l", "c">> -> filterCalc(val, Arg(args, 1))

\* fn(result, ...args) for a name filters[name] finds on Object.prototype,
\* the registry being an object literal: the member is called without a
\* receiver: this is undefined in strict-mode code and the global object
\* otherwise. __proto__ is an object, and calling it throws a TypeError
callInherited(name, val, strict) ==
  CASE name = <<"t", "o", "S", "t", "r", "i", "n", "g">> ->
         Returned(StrV(IF strict THEN <<"[", "o", "b", "j", "e", "c", "t", " ", "U", "n", "d", "e", "f", "i", "n", "e", "d", "]">> ELSE <<"[", "o", "b", "j", "e", "c", "t", " ", "W", "i", "n", "d", "o", "w", "]">>))
    [] name = <<"i", "s", "P", "r", "o", "t", "o", "t", "y", "p", "e", "O", "f">> ->
         IF val.t \in {"array", "object"} /\ strict THEN Threw
         ELSE Returned(BoolV(FALSE))
    [] name = <<"_", "_", "p", "r", "o", "t", "o", "_", "_">> -> Threw

\* one iteration of the for loop of applyFilterChain: the outcome of the
\* step on the running result
applyStep(res, step) ==
  LET colonIndex == IndexOf(step, <<":">>)
      name       == IF colonIndex > 0 THEN SubSeq(step, 1, colonIndex - 1) ELSE step
      args       == IF colonIndex > 0
                    THEN parseArgs(SubSeq(step, colonIndex + 1, Len(step)))
                    ELSE <<>>
  IN  IF step = <<>> THEN Returned(res)
      ELSE IF name \in RegistryNames THEN callFilter(name, res, args)
      ELSE IF name \in InheritedNames THEN callInherited(name, res, strictMode)
      ELSE Returned(res)

\* an iteration whose assignment to result also happens when the filter
\* threw, with undefined for the missing return value
resultAfterAssignAlways(res, step) ==
  IF applyStep(res, step).threw THEN UndefV ELSE applyStep(res, step).v

\* the value result holds after the iteration: unchanged when the filter threw
resultAfter(res, step) ==
  IF applyStep(res, step).threw THEN res ELSE applyStep(res, step).v

\* the for loop of applyFilterChain from step i
RECURSIVE applySteps(_, _, _)
applySteps(res, stepSeq, i) ==
  IF i > Len(stepSeq) THEN res
  ELSE applySteps(resultAfter(res, stepSeq[i]), stepSeq, i + 1)

\* applyFilterChain(value, filterChain)
applyFilterChain(v, chain) ==
  IF chain = <<>> THEN v ELSE applySteps(v, stepsOf(chain), 1)

---------------------------------------------------------------------------
(* The template renderer: renderTemplate.                                  *)

MaxTick == 1

\* [a-zA-Z0-9_.-]
KeyChars ==
  {LowerLetters[k] : k \in 1..LetterCount} \cup {UpperLetters[k] : k \in 1..LetterCount}
  \cup Digits \cup {"_", ".", "-"}

\* one attempt of
\*   /\{\{file\.([a-zA-Z0-9_.-]+)(\[(\d+)\])?(?:\s*\|(.*?))?\}\}/
\* at position i of t: the key is the longest run of key characters, the
\* bracket and the chain are taken when they are there, the chain is the
\* shortest text without a line break that "}}" follows; next is the
\* position after the match
matchAt(t, i) ==
  LET open     == <<"{", "{", "f", "i", "l", "e", ".">>
      k0       == i + Len(open)
      keyStops == {k \in k0..Len(t) : t[k] \notin KeyChars}
      keyEnd   == IF keyStops = {} THEN Len(t) + 1 ELSE MinOf(keyStops)
      numStops == {k \in (keyEnd + 1)..Len(t) : t[k] \notin Digits}
      numEnd   == IF numStops = {} THEN Len(t) + 1 ELSE MinOf(numStops)
      bracket  == /\ keyEnd <= Len(t) /\ t[keyEnd] = "["
                  /\ numEnd > keyEnd + 1
                  /\ numEnd <= Len(t) /\ t[numEnd] = "]"
      p        == IF bracket THEN numEnd + 1 ELSE keyEnd
      gaps     == {k \in p..Len(t) : t[k] \notin Whitespace}
      q        == IF gaps = {} THEN Len(t) + 1 ELSE MinOf(gaps)
      pipe     == q <= Len(t) /\ t[q] = "|"
      closers  == {c \in (q + 1)..(Len(t) - 1) : t[c] = "}" /\ t[c + 1] = "}"}
      close    == IF closers = {} THEN 0 ELSE MinOf(closers)
      chained  == /\ pipe /\ close > 0
                  /\ \A k \in (q + 1)..(close - 1) : t[k] # "\n"
      plain    == p + 1 <= Len(t) /\ t[p] = "}" /\ t[p + 1] = "}"
      miss     == [ok |-> FALSE, key |-> <<>>, hasIndex |-> FALSE, index |-> <<>>,
                   hasChain |-> FALSE, filterChain |-> <<>>, next |-> i + 1]
  IN  IF ~(i + Len(open) - 1 <= Len(t) /\ SubSeq(t, i, i + Len(open) - 1) = open)
      THEN miss
      ELSE IF keyEnd = k0 THEN miss
      ELSE IF chained
      THEN [ok |-> TRUE, key |-> SubSeq(t, k0, keyEnd - 1),
            hasIndex |-> bracket,
            index |-> IF bracket THEN SubSeq(t, keyEnd + 1, numEnd - 1) ELSE <<>>,
            hasChain |-> TRUE, filterChain |-> SubSeq(t, q + 1, close - 1),
            next |-> close + 2]
      ELSE IF plain
      THEN [ok |-> TRUE, key |-> SubSeq(t, k0, keyEnd - 1),
            hasIndex |-> bracket,
            index |-> IF bracket THEN SubSeq(t, keyEnd + 1, numEnd - 1) ELSE <<>>,
            hasChain |-> FALSE, filterChain |-> <<>>,
            next |-> p + 2]
      ELSE miss

\* resolveValue(key, index); the index is passed when the bracket matched
resolveValue(f, key, hasIndex, index) ==
  LET fm == FrontmatterGet(f, key)
      v  == CASE key = <<"n", "a", "m", "e">>     -> StrV(f.name)
              [] key = <<"b", "a", "s", "e", "n", "a", "m", "e">> -> StrV(f.basename)
              [] key = <<"s", "i", "z", "e">>     -> NumV(f.size)
              [] key = <<"c", "t", "i", "m", "e">>    -> NumV(f.ctime)
              [] key = <<"m", "t", "i", "m", "e">>    -> NumV(f.mtime)
              [] OTHER             -> fm
      builtin == key \in { <<"n", "a", "m", "e">>, <<"b", "a", "s", "e", "n", "a", "m", "e">>, <<"s", "i", "z", "e">>, <<"c", "t", "i", "m", "e">>, <<"m", "t", "i", "m", "e">> }
  IN  IF ~builtin /\ fm.t = "undefined" THEN NullV
      ELSE IF hasIndex /\ v.t = "array"
      THEN LET n == DigitsToNat(index)
           IN  IF n < Len(v.l) THEN StrV(v.l[n + 1]) ELSE StrV(<<>>)
      ELSE IF v.t \in {"null", "undefined"} THEN NullV
      ELSE v

\* the number of occurrences of character c in s
CountChar(s, c) == Cardinality({k \in 1..Len(s) : s[k] = c})

\* isInsideAttribute for a match at position i of the template
isInsideAttribute(t, i) ==
  LET prefix == SubSeq(t, 1, i - 1)
  IN  CountChar(prefix, "\"") % 2 # 0 \/ CountChar(prefix, "'") % 2 # 0

contentPlaceholderId(clock) == <<"c", "u", "s", "t", "o", "m", "-", "v", "i", "e", "w", "-", "c", "o", "n", "t", "e", "n", "t", "-">> \o NatToString(clock[1])

\* the value of the callback after the filter chain; null stands for the
\* values the callback replaces by "": a resolved null, whose chain is not
\* run, and a filtered null or undefined
filteredValue(m, resolved) ==
  IF resolved.t = "null" THEN NullV
  ELSE IF m.hasChain /\ m.filterChain # <<>>
  THEN applyFilterChain(resolved, Trim(m.filterChain))
  ELSE resolved

\* the part of the callback after the filter chain, for match m at
\* position i: the replacement text, the queue after it and the id of the
\* marker it emitted, "" for none; the k-th call of Date.now() returns
\* clock[k]
replacement(t, i, m, queue, clock, filtered) ==
  IF m.key = <<"c", "o", "n", "t", "e", "n", "t">>
  THEN [text  |-> <<"<", "d", "i", "v", " ", "i", "d", "=", "\"">> \o contentPlaceholderId(clock)
                  \o <<"\"", " ", "c", "l", "a", "s", "s", "=", "\"", "m", "a", "r", "k", "d", "o", "w", "n", "-", "r", "e", "n", "d", "e", "r", "e", "d", "-", "c", "o", "n", "t", "e", "n", "t", "\"", ">", "<", "/", "d", "i", "v", ">">>,
        queue |-> queue, marker |-> contentPlaceholderId(clock)]
  ELSE IF filtered.t \in {"null", "undefined"}
  THEN [text |-> <<>>, queue |-> queue, marker |-> <<>>]
  ELSE IF isInsideAttribute(t, i)
  THEN [text |-> StringOf(filtered), queue |-> queue, marker |-> <<>>]
  ELSE [text  |-> <<"<", "s", "p", "a", "n", " ", "i", "d", "=", "\"", "c", "v", "-", "m", "d", "-">> \o NatToString(Len(queue)) \o <<"-">>
                  \o NatToString(clock[Len(queue) + 2]) \o <<"\"", ">", "<", "/", "s", "p", "a", "n", ">">>,
        queue |-> Append(queue,
                         [id |-> <<"c", "v", "-", "m", "d", "-">> \o NatToString(Len(queue)) \o <<"-">>
                                 \o NatToString(clock[Len(queue) + 2]),
                          content |-> StringOf(filtered)]),
        marker |-> <<"c", "v", "-", "m", "d", "-">> \o NatToString(Len(queue)) \o <<"-">>
                   \o NatToString(clock[Len(queue) + 2])]

\* the replace callback for match m at position i
replaceCallback(f, t, i, m, queue, clock) ==
  replacement(t, i, m, queue, clock,
              filteredValue(m, resolveValue(f, m.key, m.hasIndex, m.index)))

\* template.replace(regex, callback) from position i: the matches are found
\* from the left and do not overlap
RECURSIVE replaceFrom(_, _, _, _, _, _, _)
RECURSIVE replaceAt(_, _, _, _, _, _, _, _)
RECURSIVE replaceScan(_, _, _, _, _, _, _, _)
RECURSIVE replaceMatch(_, _, _, _, _, _, _, _)

\* the match m at position i is replaced by the callback's result r
replaceMatch(f, t, out, queue, marks, clock, m, r) ==
  replaceFrom(f, t, m.next, out \o r.text, r.queue,
              IF r.marker = <<>> THEN marks
              ELSE Append(marks, [id |-> r.marker, at |-> Len(out) + 1]),
              clock)

\* position i with the outcome m of the match attempt there
replaceAt(f, t, i, out, queue, marks, clock, m) ==
  IF m.ok
  THEN replaceMatch(f, t, out, queue, marks, clock, m,
                    replaceCallback(f, t, i, m, queue, clock))
  ELSE replaceFrom(f, t, i + 1, Append(out, t[i]), queue, marks, clock)

\* the text from i up to the next brace at j, where a match can start, is
\* copied
replaceScan(f, t, i, out, queue, marks, clock, j) ==
  IF j > Len(t)
  THEN [filledTemplate |-> out \o SubSeq(t, i, Len(t)),
        markdownQueue |-> queue, sites |-> marks]
  ELSE replaceAt(f, t, j, out \o SubSeq(t, i, j - 1), queue, marks, clock,
                 matchAt(t, j))

replaceFrom(f, t, i, out, queue, marks, clock) ==
  replaceScan(f, t, i, out, queue, marks, clock,
              MinOf({k \in i..Len(t) : t[k] = "{"} \cup {Len(t) + 1}))

\* filledTemplate, markdownQueue and the markers of one renderTemplate call
fillTemplate(f, t, clock) == replaceFrom(f, t, 1, <<>>, <<>>, <<>>, clock)

\* bodyContent: the text after the frontmatter, trimmed; the whole text of
\* a document without frontmatter
bodyContentOf(f) ==
  IF f.hasFrontmatter THEN Trim(SubSeq(f.content, f.fmEnd + 1, Len(f.content)))
  ELSE f.content

\* one step of the HTML tokenizer on character k of markup s, for markup
\* without comments and raw-text elements: "text" between tags, "tag"
\* inside a tag, "eq" after the = of an attribute, "uq", "dq" and "sq"
\* inside an unquoted, double-quoted and single-quoted attribute value
htmlStep(s, k, st) ==
  LET c    == s[k]
      name == k + 1 <= Len(s)
              /\ s[k + 1] \in {LowerLetters[j] : j \in 1..LetterCount}
                              \cup {UpperLetters[j] : j \in 1..LetterCount}
                              \cup {"/"}
  IN  [text |-> IF c = "<" /\ name THEN "tag" ELSE "text",
       tag  |-> IF c = ">" THEN "text" ELSE IF c = "=" THEN "eq" ELSE "tag",
       eq   |-> IF c \in Whitespace THEN "eq"
                ELSE IF c = "\"" THEN "dq"
                ELSE IF c = "'" THEN "sq"
                ELSE IF c = ">" THEN "text" ELSE "uq",
       uq   |-> IF c \in Whitespace THEN "tag"
                ELSE IF c = ">" THEN "text" ELSE "uq",
       dq   |-> IF c = "\"" THEN "tag" ELSE "dq",
       sq   |-> IF c = "'" THEN "tag" ELSE "sq"][st]

\* the states of the tokenizer
HtmlStates == {"text", "tag", "eq", "uq", "dq", "sq"}

\* the tokenizer over the characters a..b: the state it leaves them in, as
\* a function of the state it enters them in
RECURSIVE htmlRun(_, _, _)
htmlRun(s, a, b) ==
  IF a > b THEN [st \in HtmlStates |-> st]
  ELSE IF a = b THEN [st \in HtmlStates |-> htmlStep(s, a, st)]
  ELSE [st \in HtmlStates |->
          htmlRun(s, (a + b) \div 2 + 1, b)[htmlRun(s, a, (a + b) \div 2)[st]]]

\* the tokenizer's state before position i of markup s
htmlState(s, i) == htmlRun(s, 1, i - 1)["text"]

\* container.querySelector("#id"): the index in marks of the first marker
\* with that id that the parser made an element, 0 for null
querySelector(s, marks, id) ==
  LET found == {k \in 1..Len(marks) :
                  marks[k].id = id /\ htmlState(s, marks[k].at) = "text"}
  IN  IF found = {} THEN 0 ELSE MinOf(found)

\* renderTemplate with the content element looked up before the loop over
\* markdownQueue
RECURSIVE resumeAtBodyFirst(_, _, _, _, _, _)
resumeAtBodyFirst(s, marks, queue, clock, i, log) ==
  IF querySelector(s, marks, contentPlaceholderId(clock)) # 0
  THEN [pc |-> "body", idx |-> i, log |-> log]
  ELSE IF i <= Len(queue)
  THEN IF querySelector(s, marks, queue[i].id) # 0
       THEN [pc |-> "markdown", idx |-> i, log |-> log]
       ELSE resumeAtBodyFirst(s, marks, queue, clock, i + 1, log)
  ELSE [pc |-> "done", idx |-> i, log |-> Append(log, <<"scripts">>)]

\* where renderTemplate suspends next when its loop over markdownQueue is at
\* index i: at the render of the first item whose span is found, else at
\* the render of the body when the content element is found, else nowhere:
\* executeScripts runs and the call returns
RECURSIVE resumeAt(_, _, _, _, _, _)
resumeAt(s, marks, queue, clock, i, log) ==
  IF i <= Len(queue)
  THEN IF querySelector(s, marks, queue[i].id) # 0
       THEN [pc |-> "markdown", idx |-> i, log |-> log]
       ELSE resumeAt(s, marks, queue, clock, i + 1, log)
  ELSE IF querySelector(s, marks, contentPlaceholderId(clock)) # 0
       THEN [pc |-> "body", idx |-> i, log |-> log]
       ELSE [pc |-> "done", idx |-> i, log |-> Append(log, <<"scripts">>)]

\* the call runs on to the await, or to the return, that to names
ResumeTo(to) ==
  /\ renderPc' = to.pc
  /\ queueIdx' = to.idx
  /\ renderLog' = to.log

\* the filled markup replaces the container's children and the call runs
\* on to its next await
MoveIntoContainer(filled) ==
  /\ filledTemplate' = filled.filledTemplate
  /\ markdownQueue' = filled.markdownQueue
  /\ sites' = filled.sites
  /\ ResumeTo(resumeAt(filled.filledTemplate, filled.sites, filled.markdownQueue,
                       renderClock, 1, << <<"read">>, <<"move">> >>))

\* app.vault.read resolves: the template is filled, the markup replaces the
\* container's children, and the call runs on to its next await
ReadResume ==
  /\ renderPc = "read"
  /\ bodyContent' = bodyContentOf(file)
  /\ MoveIntoContainer(fillTemplate(file, template, renderClock))
  /\ UNCHANGED <<file, template, renderClock, matchVars, chainVars, pluginVars, tabVars, editorVars>>

\* MarkdownRenderer.render of the queue item resolves: its span loses its id
\* and the loop goes on
MarkdownResume ==
  /\ renderPc = "markdown"
  /\ ResumeTo(resumeAt(filledTemplate, sites, markdownQueue, renderClock,
                       queueIdx + 1,
                       Append(renderLog, <<"markdown", markdownQueue[queueIdx].id>>)))
  /\ UNCHANGED <<file, template, renderClock, bodyContent, filledTemplate,
                 markdownQueue, sites, matchVars, chainVars, pluginVars, tabVars, editorVars>>

\* MarkdownRenderer.render of the body resolves: the content element loses
\* its id, executeScripts runs and the call returns
BodyResume ==
  /\ renderPc = "body"
  /\ renderPc' = "done"
  /\ renderLog' = renderLog \o << <<"body">>, <<"scripts">> >>
  /\ UNCHANGED <<file, template, renderClock, bodyContent, filledTemplate,
                 markdownQueue, sites, queueIdx, matchVars, chainVars, pluginVars, tabVars, editorVars>>
---------------------------------------------------------------------------
(* The settings: loadSettings and saveSettings of the plugin class, and    *)
(* the view list of the settings tab with its edit modal.                  *)

DEFAULT_RULES == Group("AND", <<>>)

DEFAULT_SETTINGS ==
  [enabled |-> TRUE, workInLivePreview |-> TRUE,
   views |-> << [id |-> <<"d", "e", "f", "a", "u", "l", "t", "-", "1">>, name |-> <<"V", "i", "e", "w", " ", "1">>,
                 rules |-> DEFAULT_RULES,
                 template |-> <<"<", "h", "1", ">", "{", "{", "f", "i", "l", "e", ".", "b", "a", "s", "e", "n", "a", "m", "e", "}", "}", "<", "/", "h", "1", ">", " ", "<", "p", ">", "{", "{", "f", "i", "l", "e", ".", "c", "o", "n", "t", "e", "n", "t", "}", "}", "<", "/", "p", ">">>] >>]

\* an array index that holds no element
Hole == [hole |-> TRUE]

\* the entry of the list is a ViewConfig
IsView(e) == "id" \in DOMAIN e

\* a string inside JSON text: the quote, the backslash and the newline are
\* written as two characters each
RECURSIVE jsonEscape(_)
jsonEscape(s) ==
  IF s = <<>> THEN <<>>
  ELSE (CASE Head(s) = "\"" -> <<"\\", "\"">>
          [] Head(s) = "\\" -> <<"\\", "\\">>
          [] Head(s) = "\n" -> <<"\\", "n">>
          [] OTHER -> <<Head(s)>>) \o jsonEscape(Tail(s))

\* the string that JSON text stands for
RECURSIVE jsonUnescape(_)
jsonUnescape(s) ==
  IF s = <<>> THEN <<>>
  ELSE IF Head(s) = "\\" /\ Len(s) >= 2
  THEN <<IF s[2] = "n" THEN "\n" ELSE s[2]>> \o jsonUnescape(Tail(Tail(s)))
  ELSE <<Head(s)>> \o jsonUnescape(Tail(s))

jsonText(s, write) == IF write THEN jsonEscape(s) ELSE jsonUnescape(s)

\* a rules tree written to JSON text (write) or read from it
RECURSIVE jsonRules(_, _)
jsonRules(n, write) ==
  IF n.type = "filter"
  THEN [n EXCEPT !.field = jsonText(n.field, write),
                 !.value = jsonText(n.value, write)]
  ELSE [n EXCEPT !.conditions =
          [i \in DOMAIN n.conditions |-> jsonRules(n.conditions[i], write)]]

\* an entry of the views array written to JSON text or read from it: an
\* index without element and an undefined element are written as null
jsonView(e, write) ==
  IF IsView(e)
  THEN [id |-> jsonText(e.id, write), name |-> jsonText(e.name, write),
        rules |-> jsonRules(e.rules, write),
        template |-> jsonText(e.template, write)]
  ELSE NullV

\* JSON.stringify(settings) as saveData writes it
stringify(s) ==
  [s EXCEPT !.views = [i \in DOMAIN s.views |-> jsonView(s.views[i], TRUE)]]

\* loadSettings: Object.assign({}, DEFAULT_SETTINGS, loadedData), where
\* loadData gives null before the first save
loadSettings(d) ==
  IF d = NullV THEN DEFAULT_SETTINGS
  ELSE [k \in DOMAIN DEFAULT_SETTINGS |->
          IF k \in DOMAIN d
          THEN IF k = "views"
               THEN [i \in DOMAIN d.views |-> jsonView(d.views[i], FALSE)]
               ELSE d[k]
          ELSE DEFAULT_SETTINGS[k]]

\* views.splice(i, 1)
spliceOut(a, i) == IF i \in 1..Len(a) THEN RemoveAt(a, i) ELSE a

\* views.splice(i, 0, x): a start beyond the end is the end
spliceIn(a, i, x) ==
  LET j == IF i > Len(a) + 1 THEN Len(a) + 1 ELSE i
  IN  SubSeq(a, 1, j - 1) \o <<x>> \o SubSeq(a, j, Len(a))

\* views[i]
elementAt(a, i) ==
  IF i \in 1..Len(a) /\ a[i] # Hole THEN a[i] ELSE UndefV

\* views[i] = x: an index beyond the end lengthens the array
assignAt(a, i, x) ==
  [k \in 1..(IF i > Len(a) THEN i ELSE Len(a)) |->
     IF k = i THEN x ELSE IF k <= Len(a) THEN a[k] ELSE Hole]

\* display(): forEach renders a row for each element, skips an index
\* without element and throws at view.id of an element that is no object
displayThrows(views) == \E i \in 1..Len(views) : views[i] \in {UndefV, NullV}

RECURSIVE displayFrom(_, _)
displayFrom(views, i) ==
  IF i > Len(views) \/ views[i] \in {UndefV, NullV} THEN <<>>
  ELSE IF views[i] = Hole THEN displayFrom(views, i + 1)
  ELSE <<[view |-> views[i], index |-> i]>> \o displayFrom(views, i + 1)

display(views) == displayFrom(views, 1)

\* saveSettings up to its await: the settings are written
SaveSettings(s) == data' = stringify(s)

\* "Add new view" up to await saveSettings
AddNewView ==
  /\ modals = <<>>
  /\ Len(calls) < MaxInFlight
  /\ Len(settings.views) < MaxViews
  /\ now <= MaxTick
  /\ LET newView == [id |-> NatToString(now), name |-> <<"N", "e", "w", " ", "V", "i", "e", "w">>,
                     rules |-> DEFAULT_RULES,
                     template |-> <<"<", "h", "1", ">", "{", "{", "f", "i", "l", "e", ".", "b", "a", "s", "e", "n", "a", "m", "e", "}", "}", "<", "/", "h", "1", ">">>]
     IN  /\ settings' = [settings EXCEPT !.views = Append(@, newView)]
         /\ calls' = Append(calls, [kind |-> "add", view |-> newView])
  /\ SaveSettings(settings')
  /\ now' = now + 1
  /\ UNCHANGED <<rows, modals, file, viewState, container, lastCall, loaded,
                 matchVars, chainVars, renderVars, editorVars>>

\* the delete button of row r up to await saveSettings
DeleteView(r) ==
  /\ modals = <<>>
  /\ Len(calls) < MaxInFlight
  /\ settings' = [settings EXCEPT !.views = spliceOut(@, rows[r].index)]
  /\ calls' = Append(calls, [kind |-> "delete", view |-> NullV])
  /\ SaveSettings(settings')
  /\ UNCHANGED <<rows, modals, now, file, viewState, container, lastCall,
                 loaded, matchVars, chainVars, renderVars, editorVars>>

\* row r is dragged and dropped on row q; a row dropped on itself returns
\* before anything is changed
DropOn(r, q) ==
  /\ modals = <<>>
  /\ IF r = q
     THEN UNCHANGED <<settings, data, rows>>
     ELSE /\ LET draggedIndex == rows[r].index
                 draggedView  == elementAt(settings.views, draggedIndex)
             IN  settings' = [settings EXCEPT
                                !.views = spliceIn(spliceOut(@, draggedIndex), q,
                                                   draggedView)]
          /\ SaveSettings(settings')
          /\ rows' = display(settings'.views)
  /\ UNCHANGED <<calls, modals, now, file, viewState, container, lastCall,
                 loaded, matchVars, chainVars, renderVars, editorVars>>

\* the edit button of row r: the modal holds a copy of the view
OpenEditView(r) ==
  /\ modals = <<>>
  /\ modals' = Append(modals, [view |-> rows[r].view, viewIndex |-> rows[r].index])
  /\ UNCHANGED <<settings, data, rows, calls, now, file, viewState, container, lastCall,
                 loaded, matchVars, chainVars, renderVars, editorVars>>

\* the name, the rules and the template are edited in modal k; the rule
\* editor calls saveSettings on every change of the modal's copy
EditInModal(k, name, rules, tpl) ==
  /\ modals' = [modals EXCEPT ![k].view =
                  [@ EXCEPT !.name = name, !.rules = rules, !.template = tpl]]
  /\ modals'[k] # modals[k]
  /\ IF modals[k].view.rules # rules
     THEN SaveSettings(settings)
     ELSE UNCHANGED data
  /\ UNCHANGED <<settings, rows, calls, now, file, viewState, container, lastCall,
                 loaded, matchVars, chainVars, renderVars, editorVars>>

\* Save of modal k up to await saveSettings
SaveModal(k) ==
  /\ Len(calls) < MaxInFlight
  /\ settings' = [settings EXCEPT
                    !.views = assignAt(@, modals[k].viewIndex, modals[k].view)]
  /\ calls' = Append(calls, [kind |-> "modal", view |-> NullV])
  /\ modals' = RemoveAt(modals, k)
  /\ SaveSettings(settings')
  /\ UNCHANGED <<rows, now, file, viewState, container, lastCall,
                 loaded, matchVars, chainVars, renderVars, editorVars>>

\* Cancel of modal k
CancelModal(k) ==
  /\ modals' = RemoveAt(modals, k)
  /\ UNCHANGED <<settings, data, rows, calls, now, file, viewState, container, lastCall,
                 loaded, matchVars, chainVars, renderVars, editorVars>>

\* saveSettings resolves for handler i: the list is displayed again, and
\* the handler of "Add new view" opens the modal for the new view with the
\* index of the last entry
SettingsSaved(i) ==
  /\ rows' = display(settings.views)
  /\ modals' = IF calls[i].kind = "add" /\ ~displayThrows(settings.views)
               THEN Append(modals, [view |-> calls[i].view,
                                    viewIndex |-> Len(settings.views)])
               ELSE modals
  /\ calls' = RemoveAt(calls, i)
  /\ UNCHANGED <<settings, data, now, file, viewState, container, lastCall,
                 loaded, matchVars, chainVars, renderVars, editorVars>>

\* the application restarts: onload loads the settings and the settings tab
\* is opened
Reload ==
  /\ settings' = loadSettings(data)
  /\ rows' = display(settings'.views)
  /\ modals' = <<>>
  /\ calls' = <<>>
  /\ UNCHANGED <<data, now, file, viewState, container, lastCall,
                 loaded, matchVars, chainVars, renderVars, editorVars>>

\* what the fields of the edit modal are changed to
ModalNames     == { <<"a", " ", "\"", "b", "\"">> }
ModalRules     == { Group("OR", <<Filter(<<"f", "i", "l", "e", ".", "n", "a", "m", "e">>, "contains", <<"\\", "n">>)>>) }
ModalTemplates == { <<"<", "p", ">", "\n", "\\">> }

---------------------------------------------------------------------------
(* The rule editor: FilterBuilder of the settings tab.                     *)

MaxRows == 2

\* OPERATORS; "!=", "<=" and ">=" stand for the one-character signs of the
\* source
OPERATORS ==
  [text     |-> <<"contains", "does not contain", "is", "is not", "starts with",
                  "ends with", "contains any of", "does not contain any of",
                  "contains all of", "does not contain all of", "is empty",
                  "is not empty">>,
   list     |-> <<"contains", "does not contain", "contains any of",
                  "does not contain any of", "contains all of",
                  "does not contain all of", "is empty", "is not empty">>,
   number   |-> <<"=", "!=", "<", "<=", ">", ">=", "is empty", "is not empty">>,
   date     |-> <<"on", "not on", "before", "on or before", "after",
                  "on or after", "is empty", "is not empty">>,
   checkbox |-> <<"is">>,
   file     |-> <<"links to", "does not link to", "in folder", "is not in folder",
                  "has tag", "does not have tag", "has property",
                  "does not have property">>]

\* /^\d{4}-\d{2}-\d{2}/ matches at the start of s
isDatePrefix(s) ==
  /\ Len(s) >= 10
  /\ \A i \in {1, 2, 3, 4, 6, 7, 9, 10} : s[i] \in Digits
  /\ s[5] = "-" /\ s[8] = "-"

inferType(val) ==
  CASE val.t \in {"null", "undefined"} -> "unknown"
    [] val.t = "array" -> "list"
    [] val.t \in {"number", "NaN"} -> "number"
    [] val.t = "boolean" -> "checkbox"
    [] val.t = "string" /\ isDatePrefix(val.s) /\ Len(val.s) = 10 -> "date"
    [] val.t = "string" /\ isDatePrefix(val.s) /\ Len(val.s) > 10
         /\ val.s[11] = "T" -> "datetime"
    [] OTHER -> "text"

builtInProps ==
  (<<"f", "i", "l", "e">> :> "file") @@ (<<"f", "i", "l", "e", ".", "n", "a", "m", "e">> :> "text") @@ (<<"f", "i", "l", "e", ".", "p", "a", "t", "h">> :> "text")
  @@ (<<"f", "i", "l", "e", ".", "f", "o", "l", "d", "e", "r">> :> "text") @@ (<<"f", "i", "l", "e", ".", "c", "t", "i", "m", "e">> :> "date")
  @@ (<<"f", "i", "l", "e", ".", "m", "t", "i", "m", "e">> :> "date") @@ (<<"f", "i", "l", "e", ".", "s", "i", "z", "e">> :> "number")
  @@ (<<"f", "i", "l", "e", " ", "t", "a", "g", "s">> :> "list") @@ (<<"a", "l", "i", "a", "s", "e", "s">> :> "list")

\* the loop of scanVaultProperties over the files from index i: a key gets
\* the type inferred from the first file that gives it one
RECURSIVE scanFrom(_, _, _)
scanFrom(propMap, files, i) ==
  IF i > Len(files) THEN propMap
  ELSE LET fm   == files[i]
           keys == {k \in DOMAIN fm :
                      /\ k \notin { <<"p", "o", "s", "i", "t", "i", "o", "n">>, <<"t", "a", "g", "s">>, <<"a", "l", "i", "a", "s", "e", "s">> }
                      /\ ~(k \in DOMAIN propMap /\ propMap[k] # "unknown")}
       IN  scanFrom([k \in DOMAIN propMap \cup keys |->
                       IF k \in keys THEN inferType(fm[k]) ELSE propMap[k]],
                    files, i + 1)

scanVaultProperties(files) == scanFrom(builtInProps, files, 1)

\* the frontmatter of the files of the vault the editor is opened in
VaultFrontmatter ==
  << (<<"d", "u", "e">> :> StrV(<<"2", "0", "2", "4", "-", "0", "5", "-", "0", "1", "T", "1", "0", ":", "0", "0">>)) @@ (<<"n", "o", "t", "e">> :> NullV)
       @@ (<<"d", "o", "n", "e">> :> BoolV(TRUE)) @@ (<<"f", "i", "l", "e">> :> StrV(<<"x">>)),
     (<<"d", "u", "e">> :> StrV(<<"s", "o", "o", "n">>)) @@ (<<"n", "o", "t", "e">> :> NullV) >>

availableProperties == scanVaultProperties(VaultFrontmatter)

getPropertyType(key) ==
  IF key \in DOMAIN availableProperties THEN availableProperties[key] ELSE "text"

\* the operators offered for a type: datetime takes those of date, a type
\* without entry in OPERATORS those of text
validOps(type) ==
  IF type = "datetime" THEN OPERATORS["date"]
  ELSE IF type \in DOMAIN OPERATORS THEN OPERATORS[type]
  ELSE OPERATORS["text"]

\* the group at path p of the tree
RECURSIVE groupAt(_, _)
groupAt(g, p) ==
  IF p = <<>> THEN g ELSE groupAt(g.conditions[Head(p)], Tail(p))

\* the tree with the conditions of the group at path p replaced
RECURSIVE withConditions(_, _, _)
withConditions(g, p, conds) ==
  IF p = <<>> THEN [g EXCEPT !.conditions = conds]
  ELSE [g EXCEPT !.conditions[Head(p)] = withConditions(@, Tail(p), conds)]

\* the paths of the groups of the tree
RECURSIVE GroupPaths(_)
GroupPaths(g) ==
  {<<>>} \cup UNION {{<<i>> \o p : p \in GroupPaths(g.conditions[i])} :
                       i \in {j \in 1..Len(g.conditions) :
                                g.conditions[j].type = "group"}}

\* the number of filters and groups below g, counted from condition i
RECURSIVE rowCount(_, _)
rowCount(g, i) ==
  IF i > Len(g.conditions) THEN 0
  ELSE 1 + rowCount(g, i + 1)
         + (IF g.conditions[i].type = "group"
            THEN rowCount(g.conditions[i], 1) ELSE 0)

\* the placeholder row of a group without conditions
placeholderFilter == Filter(<<"f", "i", "l", "e">>, "links to", <<>>)

\* the group at path p is rendered as one placeholder row
isPlaceholder(p) ==
  groupAt(group, p).conditions = <<>> \/ p \in placeholderAdded

\* the rows rendered for the group at path p: 0 for the placeholder row,
\* else the index of each condition
RowsOf(p) ==
  IF isPlaceholder(p) THEN {0} ELSE 1..Len(groupAt(group, p).conditions)

\* the filter that the handlers of row i of the group at path p read
filterOfRow(p, i) ==
  IF i = 0 THEN placeholderFilter ELSE groupAt(group, p).conditions[i]

\* the conditions of the group at path p after a handler of row i has
\* written f: the row's own filter, or for a placeholder a new last
\* condition the first time and the last condition from then on
conditionsAfter(p, i, f) ==
  LET conds == groupAt(group, p).conditions
  IN  IF i # 0 THEN [conds EXCEPT ![i] = f]
      ELSE IF p \notin placeholderAdded THEN Append(conds, f)
      ELSE [conds EXCEPT ![Len(conds)] = f]

\* the filter a handler of row i changes: the placeholder once added is the
\* last condition
targetOfRow(p, i) ==
  IF i = 0 /\ p \in placeholderAdded
  THEN groupAt(group, p).conditions[Len(groupAt(group, p).conditions)]
  ELSE filterOfRow(p, i)

\* the property modal's onSelect without the reset of the operator
propertyChosenKeepOperator(f, newVal) ==
  [f EXCEPT !.field = newVal, !.value = <<>>]

\* the property modal's onSelect: field, first operator of the new type,
\* empty value
propertyChosen(f, newVal) ==
  [f EXCEPT !.field = newVal,
            !.operator = validOps(getPropertyType(newVal))[1],
            !.value = <<>>]

Untouched ==
  UNCHANGED <<file, checkPc, matchResult, timezone, chainVars, renderVars,
              pluginVars, tabVars>>

\* "Add filter" of the group at path p
AddFilter(p) ==
  /\ rowCount(group, 1) < MaxRows
  /\ group' = withConditions(group, p,
                Append(groupAt(group, p).conditions, placeholderFilter))
  /\ placeholderAdded' = {}
  /\ Untouched

\* "Add filter group" of the group at path p
AddFilterGroup(p) ==
  /\ rowCount(group, 1) < MaxRows
  /\ Len(p) < MaxDepth
  /\ group' = withConditions(group, p,
                Append(groupAt(group, p).conditions, Group("AND", <<>>)))
  /\ placeholderAdded' = {}
  /\ Untouched

\* a property is chosen in row i of the group at path p
ChooseProperty(p, i, newVal) ==
  /\ filterOfRow(p, i).type = "filter"
  /\ i = 0 /\ p \notin placeholderAdded => rowCount(group, 1) < MaxRows
  /\ group' = withConditions(group, p,
                conditionsAfter(p, i, propertyChosen(targetOfRow(p, i), newVal)))
  /\ placeholderAdded' = {}
  /\ Untouched

\* an operator is chosen in row i from those offered for the row's field
ChooseOperator(p, i, k) ==
  /\ filterOfRow(p, i).type = "filter"
  /\ i = 0 /\ p \notin placeholderAdded => rowCount(group, 1) < MaxRows
  /\ k \in 1..Len(validOps(getPropertyType(filterOfRow(p, i).field)))
  /\ group' = withConditions(group, p,
                conditionsAfter(p, i,
                  [targetOfRow(p, i) EXCEPT !.operator =
                     validOps(getPropertyType(filterOfRow(p, i).field))[k]]))
  /\ placeholderAdded' = {}
  /\ Untouched

\* the value input of row i changes; the rows are not rendered again
EditValue(p, i, val) ==
  /\ filterOfRow(p, i).type = "filter"
  /\ filterOfRow(p, i).operator \notin {"is empty", "is not empty"}
  /\ i = 0 /\ p \notin placeholderAdded => rowCount(group, 1) < MaxRows
  /\ group' = withConditions(group, p,
                conditionsAfter(p, i, [targetOfRow(p, i) EXCEPT !.value = val]))
  /\ placeholderAdded' = IF i = 0 THEN placeholderAdded \cup {p}
                         ELSE placeholderAdded
  /\ group' # group
  /\ Untouched

\* the delete button of row i: a placeholder row is only rendered again
DeleteRow(p, i) ==
  /\ group' = IF i = 0 THEN group
              ELSE withConditions(group, p,
                     RemoveAt(groupAt(group, p).conditions, i))
  /\ placeholderAdded' = {}
  /\ <<group', placeholderAdded'>> # <<group, placeholderAdded>>
  /\ Untouched

\* the properties and the value the editor is given, and the places in
\* the list of the operator modal that are clicked
PropertyChoices == { <<"f", "i", "l", "e">>, <<"d", "u", "e">>, <<"n", "o", "t", "e">>, <<"d", "o", "n", "e">> }
ValueChoices    == { <<"x">> }
OperatorChoices == {1, 2, 5, 8, 12}

---------------------------------------------------------------------------
(* Specifications.                                                         *)

IdleMatch ==
  /\ group = Group("AND", <<>>)
  /\ checkPc = "idle"
  /\ matchResult = FALSE
  /\ timezone = 0

IdleChain ==
  /\ value = UndefV
  /\ filterChain = <<>>
  /\ steps = <<>>
  /\ stepIdx = 0
  /\ result = UndefV
  /\ chainPc = "idle"
  /\ thrown = {}
  /\ strictMode = TRUE

IdleRender ==
  /\ template = <<>>
  /\ renderPc = "idle"
  /\ renderClock = <<>>
  /\ bodyContent = <<>>
  /\ filledTemplate = <<>>
  /\ markdownQueue = <<>>
  /\ sites = <<>>
  /\ queueIdx = 0
  /\ renderLog = <<>>

IdlePlugin ==
  /\ settings = [enabled |-> FALSE]
  /\ viewState = "idle"
  /\ container = "idle"
  /\ calls = <<>>
  /\ lastCall = "idle"
  /\ loaded = FALSE

IdleEditor == placeholderAdded = {}

IdleTab ==
  /\ data = NullV
  /\ rows = <<>>
  /\ modals = <<>>
  /\ now = 0

\* checkRules is called on the group and the document
CheckRules ==
  /\ checkPc = "call"
  /\ matchResult' = checkRules(group, file)
  /\ checkPc' = "done"
  /\ UNCHANGED <<file, group, timezone, chainVars, renderVars, pluginVars, tabVars, editorVars>>

InitMatch ==
  /\ file \in DocSet
  /\ group \in RuleInputs
  /\ timezone \in Timezones
  /\ checkPc = "call"
  /\ matchResult = FALSE
  /\ IdleChain /\ IdleRender /\ IdlePlugin /\ IdleTab /\ IdleEditor

NextMatch == CheckRules

SpecMatch == InitMatch /\ [][NextMatch]_vars

\* the documents the pane shows
PluginDocs == {D1, D3}

Init ==
  /\ file \in PluginDocs
  /\ settings \in [enabled : BOOLEAN, workInLivePreview : BOOLEAN, views : ViewLists]
  /\ viewState \in ViewStates
  /\ container = [el |-> 0, hidden |-> FALSE, content |-> <<>>]
  /\ calls = <<>>
  /\ lastCall = [kind |-> "none", file |-> file, enabled |-> settings.enabled,
                 matchedTemplate |-> <<>>, state |-> viewState,
                 workInLivePreview |-> settings.workInLivePreview,
                 left |-> container]
  /\ loaded = TRUE
  /\ IdleMatch /\ IdleChain /\ IdleRender /\ IdleTab /\ IdleEditor

Next ==
  \/ \E f \in PluginDocs : FileOpen(f)
  \/ \E st \in ViewStates : LayoutChange(st)
  \/ \E enabled \in BOOLEAN : SetPluginState(enabled)
  \/ \E v \in BOOLEAN : SetWorkInLivePreview(v)
  \/ \E i \in 1..Len(calls) : SaveDone(i)
  \/ \E i \in 1..Len(calls) : RenderDone(i)
  \/ Unload

Spec == Init /\ [][Next]_vars

\* applyFilterChain up to the loop: the early return on an empty chain, or
\* the scan of the chain into steps
ScanChain ==
  /\ chainPc = "scan"
  /\ IF filterChain = <<>>
     THEN /\ chainPc' = "done"
          /\ UNCHANGED <<steps, stepIdx>>
     ELSE /\ chainPc' = "loop"
          /\ steps' = stepsOf(filterChain)
          /\ stepIdx' = 1
  /\ result' = value
  /\ UNCHANGED <<file, value, filterChain, thrown, strictMode,
                 matchVars, renderVars, pluginVars, tabVars, editorVars>>

\* one iteration of the loop over steps
RunStep ==
  /\ chainPc = "loop"
  /\ stepIdx <= Len(steps)
  /\ result' = resultAfter(result, steps[stepIdx])
  /\ thrown' = IF applyStep(result, steps[stepIdx]).threw
               THEN thrown \cup {stepIdx} ELSE thrown
  /\ stepIdx' = stepIdx + 1
  /\ UNCHANGED <<file, value, filterChain, steps, chainPc, strictMode,
                 matchVars, renderVars, pluginVars, tabVars, editorVars>>

\* the loop is over: return result
ReturnResult ==
  /\ chainPc = "loop"
  /\ stepIdx > Len(steps)
  /\ chainPc' = "done"
  /\ UNCHANGED <<file, value, filterChain, steps, stepIdx, result, thrown,
                 strictMode, matchVars, renderVars, pluginVars, tabVars, editorVars>>

ChainValues ==
  { NumV(5), StrV(<<"M", "y", " ", "N", "o", "t", "e", ".", "m", "d">>), StrV(<<" ", "x", " ">>), StrV(<<"7">>), StrV(<<"x">>),
    ListV(<< <<"a">>, <<"b">> >>), StrV(<<>>) }

ChainStrings ==
  { <<>>,
    <<"c", "a", "l", "c", ":", "+", "3", " ", "|", " ", "c", "a", "l", "c", ":", "*", "*", "2">>,
    <<"c", "a", "l", "c", ":", "\"", "+", "3", "\"", " ", "|", " ", "c", "a", "l", "c", ":", "\"", "*", "*", "2", "\"">>,
    <<"c", "a", "l", "c", ":", "-", "2", "|", "c", "a", "l", "c", ":", "*", "3">>,
    <<"r", "e", "p", "l", "a", "c", "e", ":", "\"", ".", "m", "d", "\"", ":", "\"", "\"">>,
    <<"r", "e", "p", "l", "a", "c", "e", ":", "\"", ".", "m", "d", "\"", ",", "\"", "\"">>,
    <<"r", "e", "p", "l", "a", "c", "e", ":", "\"", "o", "\"", ":", "\"", "0", "\"">>,
    <<"r", "e", "p", "l", "a", "c", "e", ":", "(", "\"", "o", "\"", ",", " ", "\"", "0", "\"", ")", " ", "|", " ", "u", "p", "p", "e", "r">>,
    <<"r", "e", "p", "l", "a", "c", "e", ":", "\"", "/", "N", "/", "\"", ",", "\"", "n", "\"">>,
    <<"r", "e", "p", "l", "a", "c", "e", ":", "\"", "/", "o", "/", "g", "\"", ",", "\"", "|", "\"">>,
    <<"r", "e", "p", "l", "a", "c", "e", ":", "\"", "/", "o", "\"">>,
    <<"t", "r", "i", "m", " ", "|", " ", "u", "p", "p", "e", "r">>,
    <<"b", "o", "g", "u", "s", "_", "f", "i", "l", "t", "e", "r">>,
    <<"t", "o", "S", "t", "r", "i", "n", "g">>,
    <<"i", "s", "P", "r", "o", "t", "o", "t", "y", "p", "e", "O", "f", " ", "|", " ", "u", "p", "p", "e", "r">>,
    <<"_", "_", "p", "r", "o", "t", "o", "_", "_", " ", "|", " ", "l", "o", "w", "e", "r">>,
    <<"n", "o", "p", "e", ":", "\"", "a", "\"", " ", "|", " ", "u", "p", "p", "e", "r">>,
    <<"b", "o", "g", "u", "s", " ", "|", " ", "l", "o", "w", "e", "r", " ", "|", " ", "c", "o", "u", "n", "t">>,
    <<"j", "o", "i", "n", ":", "\"", ",", " ", "\"", " ", "|", " ", "c", "a", "p", "i", "t", "a", "l", "i", "z", "e">>,
    <<"f", "i", "r", "s", "t", "|", "w", "i", "k", "i", "l", "i", "n", "k", ":", "\"", "w", "\"">>,
    <<"l", "a", "s", "t", " ", "|", " ", "|", " ", "c", "a", "l", "c", ":", "\"", "^", "2", "\"">>,
    <<"r", "e", "p", "l", "a", "c", "e", ":", "\"", "i", "t", "'", "s", " ", "|", " ", "\"", ",", "\"", "x", "\"", " ", "|", " ", "u", "p", "p", "e", "r">>,
    <<"r", "e", "p", "l", "a", "c", "e", ":", "'", "a", "|", "b", "'", ",", "\"", "c", "\"", " ", "|", " ", "u", "p", "p", "e", "r">>,
    <<"u", "p", "p", "e", "r", "|">>,
    <<"c", "o", "u", "n", "t", " ", "|", " ", "c", "a", "l", "c", ":", "\"", "/", "2", "\"">> }

InitChain ==
  /\ file = D3
  /\ value \in ChainValues
  /\ filterChain \in ChainStrings
  /\ steps = <<>>
  /\ stepIdx = 0
  /\ result = UndefV
  /\ chainPc = "scan"
  /\ thrown = {}
  /\ strictMode \in BOOLEAN
  /\ IdleMatch /\ IdleRender /\ IdlePlugin /\ IdleTab /\ IdleEditor

NextChain == ScanChain \/ RunStep \/ ReturnResult

SpecChain == InitChain /\ [][NextChain]_vars

MaxQueued == 2

\* the documents templates are rendered for
R1 ==
  [Doc(<<"n">>, <<"m", "o", "v", "i", "e", "s">>, 10, <<>>, TRUE,
       (<<"c", "o", "v", "e", "r">> :> StrV(<<"[", "[", "c", ".", "p", "n", "g", "]", "]">>)) @@ (<<"t", "i", "t", "l", "e">> :> StrV(<<"T">>))
       @@ (<<"g", "e", "n", "r", "e">> :> ListV(<< <<"a">>, <<"b">> >>)))
   EXCEPT !.content = <<"-", "-", "-", " ", "b", " ">>, !.fmEnd = 3]

R2 == [Doc(<<"m">>, <<>>, 9, <<>>, FALSE, NoFrontmatter) EXCEPT !.content = <<" ", "b">>]

R3 ==
  [Doc(<<"m">>, <<"a">>, 0, <<>>, TRUE,
       (<<"c", "o", "v", "e", "r">> :> StrV(<<"i", "t", "'", "s">>)) @@ (<<"t", "i", "t", "l", "e">> :> NullV)
       @@ (<<"g", "e", "n", "r", "e">> :> ListV(<<>>)))
   EXCEPT !.content = <<"-", "-", "-">>, !.fmEnd = 3]

RenderDocs == {R1, R2, R3}

\* templates whose placeholders carry the file. prefix
PrefixedTemplates ==
  { <<"<", "i", "m", "g", " ", "s", "r", "c", "=", "\"", "{", "{", "f", "i", "l", "e", ".", "c", "o", "v", "e", "r", "}", "}", "\"", ">">>,
    <<"<", "p", ">", "{", "{", "f", "i", "l", "e", ".", "c", "o", "v", "e", "r", "}", "}", "<", "/", "p", ">">>,
    <<"<", "h", "1", ">", "{", "{", "f", "i", "l", "e", ".", "t", "i", "t", "l", "e", "}", "}", "<", "/", "h", "1", ">">>,
    <<"{", "{", "f", "i", "l", "e", ".", "g", "e", "n", "r", "e", " ", "|", " ", "j", "o", "i", "n", ":", "\"", ",", " ", "\"", "}", "}">>,
    <<"{", "{", "f", "i", "l", "e", ".", "g", "e", "n", "r", "e", "[", "1", "]", "}", "}">>,
    <<"<", "a", " ", "t", "i", "t", "l", "e", "=", "'", "{", "{", "f", "i", "l", "e", ".", "t", "i", "t", "l", "e", "}", "}", "'", ">", "{", "{", "f", "i", "l", "e", ".", "g", "e", "n", "r", "e", "[", "0", "]", "}", "}", "<", "/", "a", ">">>,
    <<"i", "t", "'", "s", " ", "{", "{", "f", "i", "l", "e", ".", "t", "i", "t", "l", "e", "}", "}">>,
    <<"{", "{", "f", "i", "l", "e", ".", "m", "i", "s", "s", "i", "n", "g", " ", "|", " ", "u", "p", "p", "e", "r", "}", "}", "{", "{", "f", "i", "l", "e", ".", "b", "a", "s", "e", "n", "a", "m", "e", "}", "}">>,
    <<"{", "{", "f", "i", "l", "e", ".", "g", "e", "n", "r", "e", "[", "5", "]", "}", "}", "|", "{", "{", "f", "i", "l", "e", ".", "s", "i", "z", "e", "}", "}">>,
    <<"<", "i", " ", "x", "=", "\"", "{", "{", "f", "i", "l", "e", ".", "c", "o", "n", "t", "e", "n", "t", " ", "|", " ", "u", "p", "p", "e", "r", "}", "}", "\"", ">", "{", "{", "f", "i", "l", "e", ".", "c", "o", "n", "t", "e", "n", "t", "}", "}", "<", "/", "i", ">">>,
    <<"<", "i", " ", "x", "=", "\"", "{", "{", "f", "i", "l", "e", ".", "c", "o", "n", "t", "e", "n", "t", "}", "}", "\"", ">", "{", "{", "f", "i", "l", "e", ".", "b", "a", "s", "e", "n", "a", "m", "e", "}", "}", "<", "/", "i", ">">>,
    <<"<", "d", "i", "v", ">", "{", "{", "f", "i", "l", "e", ".", "c", "o", "n", "t", "e", "n", "t", " ", "|", " ", "u", "p", "p", "e", "r", "}", "}", "<", "/", "d", "i", "v", ">">>,
    <<"{", "{", "f", "i", "l", "e", ".", "c", "o", "n", "t", "e", "n", "t", "}", "}", "<", "h", "r", ">", "{", "{", "f", "i", "l", "e", ".", "c", "o", "n", "t", "e", "n", "t", "}", "}">>,
    <<"{", "{", "f", "i", "l", "e", ".", "t", "i", "t", "l", "e", " ", "}", "}">>,
    <<"<", "a", " ", "t", "i", "t", "l", "e", "=", "\"", "{", "{", "f", "i", "l", "e", ".", "m", "i", "s", "s", "i", "n", "g", " ", "|", " ", "w", "i", "k", "i", "l", "i", "n", "k", "}", "}", "\"", ">", "{", "{", "f", "i", "l", "e", ".", "b", "a", "s", "e", "n", "a", "m", "e", "}", "}", "<", "/", "a", ">">>,
    <<"<", "a", " ", "t", "i", "t", "l", "e", "=", "\"", "{", "{", "f", "i", "l", "e", ".", "t", "o", "S", "t", "r", "i", "n", "g", " ", "|", " ", "w", "i", "k", "i", "l", "i", "n", "k", "}", "}", "\"", ">", "{", "{", "f", "i", "l", "e", ".", "b", "a", "s", "e", "n", "a", "m", "e", "}", "}", "<", "/", "a", ">">>,
    <<"<", "a", " ", "t", "i", "t", "l", "e", "=", "\"", "{", "{", "f", "i", "l", "e", ".", "g", "e", "n", "r", "e", "[", "5", "]", "}", "}", "\"", ">", "{", "{", "f", "i", "l", "e", ".", "b", "a", "s", "e", "n", "a", "m", "e", "}", "}", "<", "/", "a", ">">>,
    <<"<", "a", " ", "t", "i", "t", "l", "e", "=", "\"", "{", "{", "f", "i", "l", "e", ".", "t", "i", "t", "l", "e", "[", "0", "]", "}", "}", "\"", ">", "{", "{", "f", "i", "l", "e", ".", "b", "a", "s", "e", "n", "a", "m", "e", "}", "}", "<", "/", "a", ">">>,
    <<"<", "b", ">", "{", "{", "f", "i", "l", "e", ".", "b", "a", "s", "e", "n", "a", "m", "e", "}", "}", "<", "/", "b", ">", "{", "{", "f", "i", "l", "e", ".", "s", "i", "z", "e", "}", "}", "{", "{", "f", "i", "l", "e", ".", "c", "o", "n", "t", "e", "n", "t", "}", "}">>,
    <<"<", "p", " ", "c", "l", "a", "s", "s", "=", "{", "{", "f", "i", "l", "e", ".", "c", "o", "v", "e", "r", "}", "}", ">", "{", "{", "f", "i", "l", "e", ".", "b", "a", "s", "e", "n", "a", "m", "e", "}", "}", "<", "/", "p", ">">>,
    <<"<", "h", "r", ">">> }

\* the same placeholders written as bare keys
BareTemplates ==
  { <<"<", "i", "m", "g", " ", "s", "r", "c", "=", "\"", "{", "{", "c", "o", "v", "e", "r", "}", "}", "\"", ">">>,
    <<"<", "p", ">", "{", "{", "c", "o", "v", "e", "r", "}", "}", "<", "/", "p", ">">>,
    <<"<", "h", "1", ">", "{", "{", "t", "i", "t", "l", "e", "}", "}", "<", "/", "h", "1", ">">>,
    <<"{", "{", "g", "e", "n", "r", "e", " ", "|", " ", "j", "o", "i", "n", ":", "\"", ",", " ", "\"", "}", "}">>,
    <<"{", "{", "g", "e", "n", "r", "e", "[", "1", "]", "}", "}">>,
    <<"<", "a", " ", "t", "i", "t", "l", "e", "=", "\"", "{", "{", "m", "i", "s", "s", "i", "n", "g", " ", "|", " ", "w", "i", "k", "i", "l", "i", "n", "k", "}", "}", "\"", ">", "{", "{", "f", "i", "l", "e", ".", "b", "a", "s", "e", "n", "a", "m", "e", "}", "}", "<", "/", "a", ">">> }

\* the runs of values Date.now() can return within one call
ClockRuns ==
  {c \in [1..(MaxQueued + 1) -> 0..MaxTick] :
     \A i \in 1..MaxQueued : c[i] <= c[i + 1]}

InitRender ==
  /\ file \in RenderDocs
  /\ template \in PrefixedTemplates \cup BareTemplates
  /\ renderClock \in ClockRuns
  /\ renderPc = "read"
  /\ bodyContent = <<>>
  /\ filledTemplate = <<>>
  /\ markdownQueue = <<>>
  /\ sites = <<>>
  /\ queueIdx = 0
  /\ renderLog = <<>>
  /\ IdleMatch /\ IdleChain /\ IdlePlugin /\ IdleTab /\ IdleEditor

NextRender == ReadResume \/ MarkdownResume \/ BodyResume

SpecRender == InitRender /\ [][NextRender]_vars

\* the settings a session starts from: the defaults of a first run, or a
\* saved list without views
InitSettings ==
  /\ file = D1
  /\ data \in {NullV, stringify([DEFAULT_SETTINGS EXCEPT !.views = <<>>])}
  /\ settings = loadSettings(data)
  /\ rows = display(settings.views)
  /\ modals = <<>>
  /\ calls = <<>>
  /\ now = 0
  /\ viewState = "idle"
  /\ container = "idle"
  /\ lastCall = "idle"
  /\ loaded = TRUE
  /\ IdleMatch /\ IdleChain /\ IdleRender /\ IdleEditor

NextSettings ==
  \/ AddNewView
  \/ \E r \in 1..Len(rows) : DeleteView(r)
  \/ \E r, q \in 1..Len(rows) : DropOn(r, q)
  \/ \E r \in 1..Len(rows) : OpenEditView(r)
  \/ \E k \in 1..Len(modals), name \in ModalNames, rules \in ModalRules,
        tpl \in ModalTemplates : EditInModal(k, name, rules, tpl)
  \/ \E k \in 1..Len(modals) : SaveModal(k)
  \/ \E k \in 1..Len(modals) : CancelModal(k)
  \/ \E i \in 1..Len(calls) : SettingsSaved(i)
  \/ Reload

SpecSettings == InitSettings /\ [][NextSettings]_vars

\* the editor is opened on the rules of a new view
InitEditor ==
  /\ file = D1
  /\ group = DEFAULT_RULES
  /\ placeholderAdded = {}
  /\ checkPc = "idle"
  /\ matchResult = FALSE
  /\ timezone = 0
  /\ IdleChain /\ IdleRender /\ IdlePlugin /\ IdleTab

NextEditor ==
  \/ \E p \in GroupPaths(group) : AddFilter(p)
  \/ \E p \in GroupPaths(group) : AddFilterGroup(p)
  \/ \E p \in GroupPaths(group) : \E i \in RowsOf(p), newVal \in PropertyChoices :
        ChooseProperty(p, i, newVal)
  \/ \E p \in GroupPaths(group) : \E i \in RowsOf(p), k \in OperatorChoices :
        ChooseOperator(p, i, k)
  \/ \E p \in GroupPaths(group) : \E i \in RowsOf(p), val \in ValueChoices :
        EditValue(p, i, val)
  \/ \E p \in GroupPaths(group) : \E i \in RowsOf(p) : DeleteRow(p, i)

SpecEditor == InitEditor /\ [][NextEditor]_vars

---------------------------------------------------------------------------
(* renderTemplate calls that overlap on one output element: each call is    *)
(* suspended at app.vault.read, at the MarkdownRenderer.render of a queue   *)
(* item or at that of the body, and the calls resume in any order.          *)

\* the output element without children: owner is the call whose markup was
\* moved in last, nodes are the marker elements of that markup
emptyElement == [owner |-> 0, markup |-> <<>>, nodes |-> <<>>]

\* the children of the element after call k moved its markup in
movedIn(k, filled) ==
  [owner  |-> k,
   markup |-> filled.filledTemplate,
   nodes  |-> [j \in 1..Len(filled.sites) |->
                 [id |-> filled.sites[j].id, at |-> filled.sites[j].at,
                  hasId |-> TRUE, text |-> <<>>]]]

\* container.querySelector("#id") on the children c: the first marker that
\* the parser made an element and that still has the id, 0 for null
querySelectorIn(c, id) ==
  LET found == {j \in 1..Len(c.nodes) :
                  /\ c.nodes[j].hasId
                  /\ c.nodes[j].id = id
                  /\ htmlState(c.markup, c.nodes[j].at) = "text"}
  IN  IF found = {} THEN 0 ELSE MinOf(found)

\* the call with its loop over markdownQueue at index i runs on to its next
\* await: the render of the first item whose span is found, else the render
\* of the body when the content element is found, else it returns
RECURSIVE suspendAt(_, _, _)
suspendAt(c, call, i) ==
  IF i <= Len(call.queue)
  THEN IF querySelectorIn(c, call.queue[i].id) # 0
       THEN [call EXCEPT !.pc = "markdown", !.idx = i,
                         !.node = [owner |-> c.owner,
                                   at |-> querySelectorIn(c, call.queue[i].id)]]
       ELSE suspendAt(c, call, i + 1)
  ELSE IF querySelectorIn(c, contentPlaceholderId(call.clock)) # 0
       THEN [call EXCEPT !.pc = "body", !.idx = i,
                         !.node = [owner |-> c.owner,
                                   at |-> querySelectorIn(c,
                                            contentPlaceholderId(call.clock))]]
       ELSE [call EXCEPT !.pc = "done", !.idx = i]

\* MarkdownRenderer.render into node n has resolved with text and the id of
\* the node is removed: the children show it when the node is still among
\* them, a node that was removed with an earlier markup shows nothing
rendered(c, n, text) ==
  IF c.owner = n.owner
  THEN [c EXCEPT !.nodes[n.at].text = Append(@, text),
                 !.nodes[n.at].hasId = FALSE]
  ELSE c

\* renderTemplate(template, file, customEl) is called and suspends at
\* app.vault.read
StartRender(f, t) ==
  /\ Len(calls) < MaxInFlight
  /\ file' = f
  /\ calls' = Append(calls,
                [kind |-> "render", el |-> container.el, file |-> f,
                 template |-> t, pc |-> "read", idx |-> 0, clock |-> <<>>,
                 queue |-> <<>>, sites |-> <<>>, filled |-> <<>>,
                 bodyContent |-> <<>>, node |-> [owner |-> 0, at |-> 0],
                 overlaps |-> \E k \in 1..Len(calls) : calls[k].pc # "done"])
  /\ UNCHANGED <<settings, viewState, container, lastCall, loaded,
                 matchVars, chainVars, renderVars, tabVars, editorVars>>

\* the read of call k has resolved with the markup filled: the markup
\* replaces the children of the element and the call runs on
MoveAndRunOn(k, clock, filled) ==
  /\ container' = [container EXCEPT !.content = movedIn(k, filled)]
  /\ calls' = [calls EXCEPT ![k] =
                 suspendAt(movedIn(k, filled),
                           [calls[k] EXCEPT
                              !.clock = clock,
                              !.queue = filled.markdownQueue,
                              !.sites = filled.sites,
                              !.filled = filled.filledTemplate,
                              !.bodyContent = bodyContentOf(calls[k].file)],
                           1)]

\* app.vault.read of call k resolves; Date.now() returns the values of clock
ReadDone(k, clock) ==
  /\ calls[k].pc = "read"
  /\ clock[1] >= now
  /\ now' = clock[MaxQueued + 1]
  /\ MoveAndRunOn(k, clock, fillTemplate(calls[k].file, calls[k].template, clock))
  /\ UNCHANGED <<file, settings, viewState, lastCall, loaded, data, rows, modals,
                 matchVars, chainVars, renderVars, editorVars>>

\* the children after the render call k awaits has resolved with text
RenderedAndRunOn(k, c, i) ==
  /\ container' = [container EXCEPT !.content = c]
  /\ calls' = [calls EXCEPT ![k] = suspendAt(c, calls[k], i)]

\* MarkdownRenderer.render of the queue item of call k resolves
MarkdownDone(k) ==
  /\ calls[k].pc = "markdown"
  /\ RenderedAndRunOn(k, rendered(container.content, calls[k].node,
                                  calls[k].queue[calls[k].idx].content),
                      calls[k].idx + 1)
  /\ UNCHANGED <<file, settings, viewState, lastCall, loaded,
                 matchVars, chainVars, renderVars, tabVars, editorVars>>

\* MarkdownRenderer.render of the body of call k resolves and the call
\* returns
BodyDone(k) ==
  /\ calls[k].pc = "body"
  /\ container' = [container EXCEPT
                     !.content = rendered(@, calls[k].node, calls[k].bodyContent)]
  /\ calls' = [calls EXCEPT ![k].pc = "done"]
  /\ UNCHANGED <<file, settings, viewState, lastCall, loaded,
                 matchVars, chainVars, renderVars, tabVars, editorVars>>

\* the documents and templates of the overlapping calls
OverlapDocs == {R1, R2}
OverlapTemplates ==
  { <<"<", "h", "1", ">", "{", "{", "f", "i", "l", "e", ".", "b", "a", "s", "e", "n", "a", "m", "e", "}", "}", "<", "/", "h", "1", ">">>,
    <<"{", "{", "f", "i", "l", "e", ".", "b", "a", "s", "e", "n", "a", "m", "e", "}", "}", " ", "{", "{", "f", "i", "l", "e", ".", "s", "i", "z", "e", "}", "}">>,
    <<"{", "{", "f", "i", "l", "e", ".", "s", "i", "z", "e", "}", "}", "{", "{", "f", "i", "l", "e", ".", "c", "o", "n", "t", "e", "n", "t", "}", "}">>,
    <<"<", "h", "r", ">">> }

\* the custom element of a pane, empty, and no call in flight
InitOverlap ==
  /\ file = R1
  /\ container = [el |-> 1, hidden |-> FALSE, content |-> emptyElement]
  /\ calls = <<>>
  /\ settings = [enabled |-> TRUE]
  /\ viewState = "idle"
  /\ lastCall = "idle"
  /\ loaded = TRUE
  /\ IdleMatch /\ IdleChain /\ IdleRender /\ IdleTab /\ IdleEditor

NextOverlap ==
  \/ \E f \in OverlapDocs, t \in OverlapTemplates : StartRender(f, t)
  \/ \E k \in 1..Len(calls), clock \in ClockRuns : ReadDone(k, clock)
  \/ \E k \in 1..Len(calls) : MarkdownDone(k)
  \/ \E k \in 1..Len(calls) : BodyDone(k)

SpecOverlap == InitOverlap /\ [][NextOverlap]_vars


---------------------------------------------------------------------------
(* Properties of the rule matcher, checked under SpecMatch.                *)

\* the root group holds exactly one leaf filter
SingleLeaf ==
  /\ Len(group.conditions) = 1
  /\ group.conditions[1].type = "filter"

TheLeaf == group.conditions[1]

\* every group of the tree rooted at g, g included
RECURSIVE SubGroups(_)
SubGroups(g) ==
  {g} \cup UNION {IF g.conditions[i].type = "group"
                  THEN SubGroups(g.conditions[i]) ELSE {} :
                  i \in 1..Len(g.conditions)}

(* C2: NOR is the negation of OR over the same children: the result of     *)
(* checkRules on a NOR group with at least one condition is the negation   *)
(* of checkRules on the same group with operator OR.                       *)
C2_NorNegatesOr ==
  (checkPc = "done" /\ group.operator = "NOR" /\ Len(group.conditions) > 0)
    => matchResult = ~checkRules([group EXCEPT !.operator = "OR"], file)

(* C3: a group with no conditions matches every document, whatever its     *)
(* operator and wherever it stands in the tree: the call on an empty root  *)
(* returned TRUE, and so does checkRules on every empty group nested in    *)
(* the root.                                                               *)
C3_EmptyGroupMatches ==
  checkPc = "done" =>
    /\ (Len(group.conditions) = 0 => matchResult = TRUE)
    /\ \A g \in SubGroups(group) :
         Len(g.conditions) = 0 => checkRules(g, file) = TRUE

\* C3's case: an evaluated tree holding a nested empty NOR group
C3_Witness ==
  /\ checkPc = "done"
  /\ \E i \in 1..Len(group.conditions) :
       group.conditions[i] = Group("NOR", <<>>)

\* the comparison a number operator denotes
NumericCompare(op, a, b) ==
  CASE op = "="  -> a = b
    [] op = "!=" -> a # b
    [] op = "<"  -> a < b
    [] op = "<=" -> a <= b
    [] op = ">"  -> a > b
    [] op = ">=" -> a >= b

(* C4: on the number field file.size a leaf with a number operator         *)
(* evaluates to the numeric comparison of the file's size with the filter  *)
(* value read as a number.                                                 *)
C4_NumericComparison ==
  (/\ checkPc = "done"
   /\ SingleLeaf
   /\ TheLeaf.field = <<"f", "i", "l", "e", ".", "s", "i", "z", "e">>
   /\ TheLeaf.operator \in NumericOperators
   /\ AllDigits(TheLeaf.value))
    => matchResult = NumericCompare(TheLeaf.operator, file.size,
                                    DigitsToNat(TheLeaf.value))

\* a tag as its '/'-separated path
TagPath(tag) == Split(tag, "/")

IsPathPrefix(p, q) == Len(p) <= Len(q) /\ SubSeq(q, 1, Len(p)) = p

\* equal, or one a path prefix of the other
HierarchicalMatch(a, b) ==
  \/ IsPathPrefix(TagPath(a), TagPath(b))
  \/ IsPathPrefix(TagPath(b), TagPath(a))

(* C9: has tag is true exactly when some tag of the filter value and some  *)
(* tag of the file are equal or one is a '/'-separated path prefix of the  *)
(* other; a plain string prefix is no match.                               *)
C9_HasTagHierarchical ==
  (/\ checkPc = "done"
   /\ SingleLeaf
   /\ TheLeaf.field = <<"f", "i", "l", "e">>
   /\ TheLeaf.operator = "has tag")
    => matchResult =
         (\E i \in 1..Len(CommaTokens(TheLeaf.value)) :
            \E j \in 1..Len(fileTagNames(file)) :
              HierarchicalMatch(CommaTokens(TheLeaf.value)[i], fileTagNames(file)[j]))

\* C9's case: the filter tag movies/action matched a file whose only tag
\* is its parent movies
C9_Witness ==
  /\ checkPc = "done"
  /\ SingleLeaf
  /\ TheLeaf = Filter(<<"f", "i", "l", "e">>, "has tag", <<"m", "o", "v", "i", "e", "s", "/", "a", "c", "t", "i", "o", "n">>)
  /\ fileTagNames(file) = << <<"m", "o", "v", "i", "e", "s">> >>
  /\ matchResult = TRUE

\* the comma-separated, trimmed tokens of a filter value, empty ones included
AllTokens(v) == {Trim(Split(v, ",")[i]) : i \in 1..Len(Split(v, ","))}

\* token is a substring of at least one element of the list
InSomeElement(token, list) == \E i \in 1..Len(list) : Includes(list[i], token)

ListTarget == targetValueOf(TheLeaf, file).t = "array"

(* C10 as stated: on a list, contains all of is true iff every             *)
(* comma-separated trimmed token of the filter value is a substring of     *)
(* some element, and contains any of iff at least one token is.            *)
C10_AllAnyOfEveryToken ==
  (checkPc = "done" /\ SingleLeaf /\ ListTarget) =>
    /\ TheLeaf.operator = "contains all of" =>
         matchResult = (\A t \in AllTokens(TheLeaf.value) :
                          InSomeElement(t, targetValueOf(TheLeaf, file).l))
    /\ TheLeaf.operator = "contains any of" =>
         matchResult = (\E t \in AllTokens(TheLeaf.value) :
                          InSomeElement(t, targetValueOf(TheLeaf, file).l))

(* C10 amended: empty tokens are dropped; contains all of is true iff the  *)
(* filter value has at least one non-empty token and every non-empty token *)
(* is a substring of some element; contains any of is true iff at least    *)
(* one non-empty token is a substring of some element.                     *)
C10_AllAnyOfNonEmptyTokens ==
  (checkPc = "done" /\ SingleLeaf /\ ListTarget) =>
    /\ TheLeaf.operator = "contains all of" =>
         matchResult = (/\ AllTokens(TheLeaf.value) \ {<<>>} # {}
                        /\ \A t \in AllTokens(TheLeaf.value) \ {<<>>} :
                             InSomeElement(t, targetValueOf(TheLeaf, file).l))
    /\ TheLeaf.operator = "contains any of" =>
         matchResult = (\E t \in AllTokens(TheLeaf.value) \ {<<>>} :
                          InSomeElement(t, targetValueOf(TheLeaf, file).l))

\* C10's case: "a,b" with contains all of matched the list ["xa", "yb"]
C10_Witness ==
  /\ checkPc = "done"
  /\ SingleLeaf
  /\ TheLeaf = Filter(<<"l", "a", "b", "e", "l", "s">>, "contains all of", <<"a", ",", "b">>)
  /\ targetValueOf(TheLeaf, file) = ListV(<< <<"x", "a">>, <<"y", "b">> >>)
  /\ matchResult = TRUE

\* the timestamp a date filter on ctime or mtime reads
Timestamp(f, field) == IF field = <<"f", "i", "l", "e", ".", "c", "t", "i", "m", "e">> THEN f.ctime ELSE f.mtime

\* the YYYY-MM-DD string of UTC day d of January 1970, d counted from 0
UtcDayString(d) ==
  <<"1", "9", "7", "0", "-", "0", "1", "-">> \o <<DigitChar((d + 1) \div 10), DigitChar((d + 1) % 10)>>

\* the leaf is a date filter whose value is the YYYY-MM-DD string of day d
DateLeafOfDay(d) ==
  /\ TheLeaf.field \in { <<"f", "i", "l", "e", ".", "c", "t", "i", "m", "e">>, <<"f", "i", "l", "e", ".", "m", "t", "i", "m", "e">> }
  /\ TheLeaf.value = UtcDayString(d)

\* the UTC day of the timestamp the leaf reads
TargetDay == Timestamp(file, TheLeaf.field) \div DayMs

\* the leaf is a date filter whose value names the UTC day of the timestamp
OnItsOwnDay == DateLeafOfDay(TargetDay)

(* C11: on file.ctime and file.mtime the date operators compare by UTC     *)
(* calendar day: against the YYYY-MM-DD string of a day, "on", "before"    *)
(* and "after" hold as the UTC day of the timestamp is that day, an        *)
(* earlier or a later one, whatever the time of day and the host's time    *)
(* zone; so against its own day a timestamp satisfies "on" and neither     *)
(* "before" nor "after".                                                   *)
C11_DateByUtcDay ==
  \A d \in 0..3 :
    (checkPc = "done" /\ SingleLeaf /\ DateLeafOfDay(d))
      => /\ TheLeaf.operator = "on" => (matchResult <=> TargetDay = d)
         /\ TheLeaf.operator = "before" => (matchResult <=> TargetDay < d)
         /\ TheLeaf.operator = "after" => (matchResult <=> TargetDay > d)

\* C11: a timestamp late in its UTC day, on a host away from UTC, is
\* matched by "on" against the string of that day
C11_Witness ==
  /\ checkPc = "done" /\ SingleLeaf /\ OnItsOwnDay
  /\ TheLeaf.operator = "on"
  /\ Timestamp(file, TheLeaf.field) % DayMs > DayMs \div 2
  /\ timezone # 0
  /\ matchResult

\* the operators of the "file" pseudo-field
FileOperators ==
  {"links to", "does not link to", "in folder", "is not in folder",
   "has tag", "does not have tag", "has property", "does not have property"}

\* the operators of the generic scalar and list comparison
GenericOperators ==
  {"is empty", "is not empty", "is", "is not", "contains", "does not contain",
   "contains any of", "does not contain any of", "contains all of",
   "does not contain all of", "starts with", "ends with"}

\* the date operators that compare days
DayOperators == dateOperators \ {"is empty", "is not empty"}

\* the operator of the leaf is unknown, or is not defined for the field or
\* for the shape of the value the field resolves to
OperatorUndefined(leaf, f) ==
  \/ leaf.operator \notin FileOperators \cup GenericOperators \cup DayOperators
                           \cup NumericOperators
  \/ leaf.field = <<"f", "i", "l", "e">> /\ leaf.operator \notin FileOperators
  \/ leaf.field # <<"f", "i", "l", "e">> /\ leaf.operator \in FileOperators
  \/ /\ leaf.field # <<"f", "i", "l", "e">>
     /\ leaf.operator \in {"starts with", "ends with"}
     /\ targetValueOf(leaf, f).t = "array"
  \/ /\ leaf.operator \in DayOperators
     /\ leaf.field \notin { <<"f", "i", "l", "e", ".", "c", "t", "i", "m", "e">>, <<"f", "i", "l", "e", ".", "m", "t", "i", "m", "e">> }
  \/ /\ leaf.operator \in NumericOperators
     /\ leaf.field # <<"f", "i", "l", "e">>
     /\ targetValueOf(leaf, f).t # "number"

(* C12: checkRules returns a boolean for every group tree and document,    *)
(* and a single leaf whose operator is unknown, or is not defined for its  *)
(* field or for the shape of the resolved value (starts with and ends with *)
(* on a list, a date or number operator on text, a file operator on a      *)
(* property), does not match.                                              *)
C12_CheckRulesTotal ==
  checkPc = "done"
    => /\ matchResult \in BOOLEAN
       /\ (SingleLeaf /\ OperatorUndefined(TheLeaf, file)) => ~matchResult

\* C12: "ends with" on a list whose string form ends with the filter value
\* has been evaluated and did not match
C12_Witness ==
  /\ checkPc = "done" /\ SingleLeaf
  /\ TheLeaf.operator = "ends with"
  /\ targetValueOf(TheLeaf, file).t = "array"
  /\ EndsWith(StringOf(targetValueOf(TheLeaf, file)), TheLeaf.value)
  /\ TheLeaf.value # <<>>
  /\ ~matchResult

\* s without its leading and trailing slashes
Unslashed(s) ==
  LET inner == {i \in 1..Len(s) : s[i] # "/"}
  IN  IF inner = {} THEN <<>>
      ELSE SubSeq(s, MinOf(inner), CHOOSE b \in inner : \A i \in inner : i <= b)

\* folder d is folder t or lies below it
AtOrBelow(d, t) ==
  \/ d = t
  \/ /\ Len(d) > Len(t)
     /\ \A i \in 1..Len(t) : d[i] = t[i]
     /\ d[Len(t) + 1] = "/"

(* C25: in folder is true iff, with the leading and trailing slashes of    *)
(* both sides stripped, the folder of the document is the target or starts *)
(* with the target followed by '/'; is not in folder is its negation; with *)
(* an empty target in folder is false and is not in folder is true. The    *)
(* target is the trimmed filter value.                                     *)
C25_InFolder ==
  (/\ checkPc = "done"
   /\ SingleLeaf
   /\ TheLeaf.field = <<"f", "i", "l", "e">>
   /\ TheLeaf.operator \in {"in folder", "is not in folder"})
    => matchResult =
         IF Trim(TheLeaf.value) = <<>> THEN TheLeaf.operator = "is not in folder"
         ELSE (TheLeaf.operator = "in folder")
                <=> AtOrBelow(Unslashed(file.parentPath),
                              Unslashed(Trim(TheLeaf.value)))

\* C25's case: target "a" has been evaluated on a document of folder a/b
\* and matched
C25_Witness ==
  /\ checkPc = "done" /\ SingleLeaf
  /\ TheLeaf = Filter(<<"f", "i", "l", "e">>, "in folder", <<"a">>)
  /\ file.parentPath = <<"a", "/", "b">>
  /\ matchResult

\* the negated operators, each with its positive counterpart
NegatedOperators ==
  {"is not", "does not contain", "does not contain any of",
   "does not contain all of", "not on", "does not link to",
   "is not in folder", "does not have tag", "does not have property"}

PositiveOf(op) ==
  CASE op = "is not"                  -> "is"
    [] op = "does not contain"        -> "contains"
    [] op = "does not contain any of" -> "contains any of"
    [] op = "does not contain all of" -> "contains all of"
    [] op = "not on"                  -> "on"
    [] op = "does not link to"        -> "links to"
    [] op = "is not in folder"        -> "in folder"
    [] op = "does not have tag"       -> "has tag"
    [] op = "does not have property"  -> "has property"

(* C28: each negated operator is the exact complement of its positive      *)
(* counterpart: for every document, field and filter value, an empty or    *)
(* unparsable one included, the negated operator returns the negation of   *)
(* what the positive operator returns on the same field and value.         *)
C28_NegationIsComplement ==
  (checkPc = "done" /\ SingleLeaf /\ TheLeaf.operator \in NegatedOperators) =>
    matchResult =
      ~evaluateFilter([TheLeaf EXCEPT !.operator = PositiveOf(@)], file)

---------------------------------------------------------------------------
(* Properties of the view selector, checked under Spec.                    *)

\* the indices of the views whose rules match the document
MatchingViews(views, f) == {i \in 1..Len(views) : checkRules(views[i].rules, f)}

(* C1: view selection is first-match-wins: a processActiveView call of the *)
(* enabled plugin takes the template of the lowest-index view whose rules  *)
(* match the document, whatever later views match, and when no view        *)
(* matches it takes none and restores the default view.                    *)
C1_FirstMatchWins ==
  (lastCall.kind # "none" /\ lastCall.enabled) =>
    LET hits == MatchingViews(settings.views, lastCall.file)
    IN  /\ hits # {} =>
             lastCall.matchedTemplate = settings.views[MinOf(hits)].template
        /\ hits = {} =>
             /\ lastCall.matchedTemplate = <<>>
             /\ lastCall.kind = "restore"

\* C1's case: both views of the list match the document, their templates
\* differ, and the call injected the template of the first
C1_Witness ==
  /\ lastCall.kind = "inject"
  /\ Len(settings.views) = 2
  /\ MatchingViews(settings.views, lastCall.file) = {1, 2}
  /\ lastCall.matchedTemplate = settings.views[1].template
  /\ settings.views[2].template # settings.views[1].template

\* the conditions C17 names for an injection, for the call lastCall records
InjectCase ==
  /\ lastCall.enabled
  /\ MatchingViews(settings.views, lastCall.file) # {}
  /\ ~(lastCall.state.mode = "source" /\ lastCall.state.source)
  /\ \/ lastCall.state.mode = "preview"
     \/ /\ lastCall.state.mode = "source" /\ ~lastCall.state.source
        /\ lastCall.workInLivePreview

NoCallInFlight == \A i \in 1..Len(calls) : calls[i].kind # "render"

(* C27: whenever no processActiveView call is in flight, the container     *)
(* carries the hide-markdown class only if it also contains a custom-view  *)
(* element, for every interleaving of file-open, layout-change,            *)
(* enable/disable and unload events with a render that is still awaiting.  *)
C27_HiddenOnlyWithCustomView ==
  NoCallInFlight => (container.hidden => container.el # 0)

\* the first view matching the document of the recorded call has an empty
\* template
FirstMatchIsEmpty ==
  LET hits == MatchingViews(settings.views, lastCall.file)
  IN  /\ hits # {}
      /\ settings.views[MinOf(hits)].template = <<>>

(* C29: when the first matching view has an empty template,                *)
(* processActiveView treats the document as unmatched: it takes no         *)
(* template, restores the default view, and consults no later view, even   *)
(* one that matches and has a non-empty template.                          *)
C29_EmptyTemplateIsNoMatch ==
  (lastCall.kind # "none" /\ lastCall.enabled /\ FirstMatchIsEmpty) =>
    /\ lastCall.matchedTemplate = <<>>
    /\ lastCall.kind = "restore"
    /\ lastCall.left.el = 0
    /\ ~lastCall.left.hidden

\* C29's case: the first view matches with an empty template, the second
\* matches with a non-empty one, and the call restored the default view of
\* a pane that would otherwise show a custom view
C29_Witness ==
  /\ lastCall.kind = "restore"
  /\ lastCall.enabled
  /\ lastCall.state.mode = "preview"
  /\ Len(settings.views) = 2
  /\ MatchingViews(settings.views, lastCall.file) = {1, 2}
  /\ settings.views[1].template = <<>>
  /\ settings.views[2].template # <<>>

---------------------------------------------------------------------------
(* Properties of the settings and of the view list, checked under          *)
(* SpecSettings.                                                           *)

(* C18: saving the settings and loading them again yields the views list   *)
(* that was saved: the same length and order, and at each position the     *)
(* same id, name, rules tree and template, after any sequence of add,      *)
(* delete, edit and reorder operations.                                    *)
C18_SaveLoadRoundTrip ==
  [][Reload => settings'.views = settings.views]_vars

\* the entries of the list that are views
ViewEntries == {i \in 1..Len(settings.views) : IsView(settings.views[i])}

(* C20: view ids are unique and stable: no two entries of settings.views   *)
(* share an id, and an edit in the modal never changes the id of the view  *)
(* it holds.                                                               *)
C20_UniqueStableIds ==
  /\ [](\A i, j \in ViewEntries :
          settings.views[i].id = settings.views[j].id => i = j)
  /\ [][\A k \in 1..Len(modals) :
          (Len(modals') = Len(modals) /\ modals'[k] # modals[k])
            => modals'[k].view.id = modals[k].view.id]_vars

(* C26: a row dragged from index i and dropped on the row at index j,      *)
(* i # j, yields a permutation of the list: no entry is lost or            *)
(* duplicated, the dragged view ends at index j and the other views keep   *)
(* their order; a row dropped on itself changes nothing.                   *)
C26_DropIsPermutation ==
  [][\A r, q \in 1..Len(rows) :
       DropOn(r, q) =>
         IF r = q THEN settings'.views = settings.views
         ELSE /\ Len(settings'.views) = Len(settings.views)
              /\ rows[r].index \in 1..Len(settings.views)
              /\ settings'.views[q] = settings.views[rows[r].index]
              /\ RemoveAt(settings'.views, q)
                   = RemoveAt(settings.views, rows[r].index)]_vars

\* the id of entry i of a list, <<>> where the entry is no view
IdAt(views, i) ==
  IF i \in 1..Len(views) /\ IsView(views[i]) THEN views[i].id ELSE <<>>

(* C30: an edit-modal session changes settings.views only on Save, and     *)
(* then only the entry of the view the modal was opened for (same id):     *)
(* edits in the modal and Cancel leave settings.views unchanged, and Save  *)
(* leaves every other entry and the order of the list unchanged.           *)
C30_ModalChangesOwnEntryOnly ==
  [][(modals' # modals /\ ~Reload) =>
       IF \E k \in 1..Len(modals) : SaveModal(k)
       THEN \A k \in 1..Len(modals) :
              SaveModal(k) =>
                /\ Len(settings'.views) = Len(settings.views)
                /\ \A i \in 1..Len(settings.views) :
                     IF IdAt(settings.views, i) = modals[k].view.id
                     THEN settings'.views[i] = modals[k].view
                     ELSE settings'.views[i] = settings.views[i]
       ELSE settings'.views = settings.views]_vars

---------------------------------------------------------------------------
(* Properties of the rule editor, checked under SpecEditor.                *)

\* the leaf filters of a rules tree
RECURSIVE LeafFiltersOf(_)
LeafFiltersOf(g) ==
  UNION {IF g.conditions[i].type = "filter" THEN {g.conditions[i]}
         ELSE LeafFiltersOf(g.conditions[i]) : i \in 1..Len(g.conditions)}

\* the operator set of the type inferred for a field: datetime uses the
\* date set, unknown the text set
OperatorSetOf(field) ==
  LET type == getPropertyType(field)
      key  == IF type = "datetime" THEN "date"
              ELSE IF type = "unknown" THEN "text" ELSE type
  IN  {OPERATORS[key][k] : k \in 1..Len(OPERATORS[key])}

(* C19: after any sequence of rule-editor operations (add filter, add      *)
(* group, choose property, choose operator, edit value, delete) every leaf *)
(* filter of the rules has an operator of the operator set of the type     *)
(* inferred for its field.                                                 *)
C19_OperatorOfFieldType ==
  \A f \in LeafFiltersOf(group) : f.operator \in OperatorSetOf(f.field)

\* C19's cases: a filter on a datetime property with a date operator chosen
\* in the operator modal, beside a filter on a property of unknown type
\* with a text operator
C19_Witness ==
  /\ \E f \in LeafFiltersOf(group) :
       f.field = <<"d", "u", "e">> /\ f.operator = "after" /\ f.value = <<"x">>
  /\ \E f \in LeafFiltersOf(group) :
       f.field = <<"n", "o", "t", "e">> /\ f.operator = "starts with"

---------------------------------------------------------------------------
(* Properties of the filter chain, checked under SpecChain.                *)

(* C5: the steps of a chain are applied left to right, each on the result  *)
(* of the one before: applyFilterChain(5, "calc:+3 | calc:**2") returns    *)
(* 64.                                                                     *)
C5_CalcChainYields64 ==
  (/\ chainPc = "done"
   /\ value = NumV(5)
   /\ filterChain = <<"c", "a", "l", "c", ":", "+", "3", " ", "|", " ", "c", "a", "l", "c", ":", "*", "*", "2">>)
    => result = NumV(64)

\* chains that call replace with colon-separated arguments, with the
\* search text and the replacement text they name
ColonReplaceChains ==
  { [chain |-> <<"r", "e", "p", "l", "a", "c", "e", ":", "\"", ".", "m", "d", "\"", ":", "\"", "\"">>, search |-> <<".", "m", "d">>, replaceWith |-> <<>>],
    [chain |-> <<"r", "e", "p", "l", "a", "c", "e", ":", "\"", "o", "\"", ":", "\"", "0", "\"">>, search |-> <<"o">>, replaceWith |-> <<"0">>] }

(* C8: replace written with colon-separated arguments replaces every       *)
(* occurrence of the search text by the replacement text: "My Note.md"     *)
(* through replace:".md":"" returns "My Note".                             *)
C8_ReplaceColonArguments ==
  \A c \in ColonReplaceChains :
    (chainPc = "done" /\ filterChain = c.chain)
      => result = StrV(ReplaceAll(StringOf(value), c.search, c.replaceWith))

\* the filter name of a step: the text before its first colon
StepName(step) ==
  IF IndexOf(step, <<":">>) > 0 THEN SubSeq(step, 1, IndexOf(step, <<":">>) - 1)
  ELSE step

\* the loop is at a step whose name is not a name of the registry
AtUnregisteredStep ==
  /\ chainPc = "loop"
  /\ stepIdx <= Len(steps)
  /\ StepName(steps[stepIdx]) \notin RegistryNames

(* C13: a step that names a filter absent from the registry is a no-op:    *)
(* the iteration leaves the running result as it is and the loop goes on   *)
(* to the next step.                                                       *)
C13_UnregisteredStepIsNoOp ==
  [][AtUnregisteredStep => (result' = result /\ stepIdx' = stepIdx + 1 /\ chainPc' = "loop")]_vars

\* the iteration being taken is one whose filter throws
StepThrows == chainPc = "loop" /\ stepIdx <= Len(steps) /\ stepIdx \in thrown'

(* C14: the chain is fail-soft: an iteration whose filter throws leaves    *)
(* the running result exactly as it entered the step and the loop goes on  *)
(* to the next step; the call returns only after the last step.            *)
C14_FailSoft ==
  /\ [][StepThrows => (result' = result /\ stepIdx' = stepIdx + 1 /\ chainPc' = "loop")]_vars
  /\ [](chainPc = "done" /\ filterChain # <<>> => stepIdx = Len(steps) + 1)

\* C14: the call has returned, its first step threw, and a later step
\* changed the value
C14_Witness ==
  /\ chainPc = "done"
  /\ 1 \in thrown
  /\ Len(steps) > 1
  /\ result # value

\* the positions from i of the '|' characters of the chain that lie outside
\* quoted arguments; open is the quote character of the argument that
\* position i lies in, "" outside: an argument ends at the next occurrence
\* of the quote character it starts with
RECURSIVE OutsidePipesFrom(_, _, _)
OutsidePipesFrom(chain, i, open) ==
  IF i > Len(chain) THEN {}
  ELSE IF open = ""
  THEN IF chain[i] \in {"\"", "'"} THEN OutsidePipesFrom(chain, i + 1, chain[i])
       ELSE (IF chain[i] = "|" THEN {i} ELSE {})
            \cup OutsidePipesFrom(chain, i + 1, "")
  ELSE IF chain[i] = open THEN OutsidePipesFrom(chain, i + 1, "")
  ELSE OutsidePipesFrom(chain, i + 1, open)

\* the chain cut at the positions of P, each part trimmed
PartsAt(chain, P) ==
  LET cut(k) == IF k = 0 THEN 0
                ELSE IF k > Cardinality(P) THEN Len(chain) + 1
                ELSE CHOOSE p \in P : Cardinality({q \in P : q < p}) = k - 1
  IN  [k \in 1..(Cardinality(P) + 1) |->
         Trim(SubSeq(chain, cut(k - 1) + 1, cut(k) - 1))]

(* C24: the scanner of applyFilterChain splits the chain at '|' only       *)
(* outside quoted arguments: a '|' between the opening and the closing     *)
(* quote of a double- or single-quoted argument never ends a step, so the  *)
(* steps are the parts of the chain between the '|' outside quoted         *)
(* arguments, one more than there are such '|'.                            *)
C24_PipesOutsideQuotes ==
  (chainPc # "scan" /\ filterChain # <<>>) =>
    steps = PartsAt(filterChain, OutsidePipesFrom(filterChain, 1, ""))

---------------------------------------------------------------------------
(* Properties of the template renderer, checked under SpecRender.          *)

\* templates of one placeholder: the text before it, its key and the text
\* after it
OnePlaceholder ==
  { [template |-> <<"<", "i", "m", "g", " ", "s", "r", "c", "=", "\"", "{", "{", "c", "o", "v", "e", "r", "}", "}", "\"", ">">>,
     before |-> <<"<", "i", "m", "g", " ", "s", "r", "c", "=", "\"">>, key |-> <<"c", "o", "v", "e", "r">>, after |-> <<"\"", ">">>],
    [template |-> <<"<", "p", ">", "{", "{", "c", "o", "v", "e", "r", "}", "}", "<", "/", "p", ">">>,
     before |-> <<"<", "p", ">">>, key |-> <<"c", "o", "v", "e", "r">>, after |-> <<"<", "/", "p", ">">>],
    [template |-> <<"<", "i", "m", "g", " ", "s", "r", "c", "=", "\"", "{", "{", "f", "i", "l", "e", ".", "c", "o", "v", "e", "r", "}", "}", "\"", ">">>,
     before |-> <<"<", "i", "m", "g", " ", "s", "r", "c", "=", "\"">>, key |-> <<"c", "o", "v", "e", "r">>, after |-> <<"\"", ">">>],
    [template |-> <<"<", "p", ">", "{", "{", "f", "i", "l", "e", ".", "c", "o", "v", "e", "r", "}", "}", "<", "/", "p", ">">>,
     before |-> <<"<", "p", ">">>, key |-> <<"c", "o", "v", "e", "r">>, after |-> <<"<", "/", "p", ">">>],
    [template |-> <<"i", "t", "'", "s", " ", "{", "{", "f", "i", "l", "e", ".", "t", "i", "t", "l", "e", "}", "}">>,
     before |-> <<"i", "t", "'", "s", " ">>, key |-> <<"t", "i", "t", "l", "e">>, after |-> <<>>],
    [template |-> <<"<", "h", "1", ">", "{", "{", "f", "i", "l", "e", ".", "t", "i", "t", "l", "e", "}", "}", "<", "/", "h", "1", ">">>,
     before |-> <<"<", "h", "1", ">">>, key |-> <<"t", "i", "t", "l", "e">>, after |-> <<"<", "/", "h", "1", ">">>] }

\* an odd number of " or of ' characters precedes the placeholder
InQuotedAttribute(before) ==
  CountChar(before, "\"") % 2 = 1 \/ CountChar(before, "'") % 2 = 1

\* the frontmatter holds a value for the key
HasValue(f, key) == FrontmatterGet(f, key).t \notin {"undefined", "null"}

\* the substitution C6 describes for a template of one placeholder
ContextAwareFill(c) ==
  IF InQuotedAttribute(c.before)
  THEN /\ filledTemplate = c.before \o StringOf(FrontmatterGet(file, c.key)) \o c.after
       /\ markdownQueue = <<>>
  ELSE /\ Len(markdownQueue) = 1
       /\ markdownQueue[1].content = StringOf(FrontmatterGet(file, c.key))
       /\ filledTemplate = c.before \o <<"<", "s", "p", "a", "n", " ", "i", "d", "=", "\"">> \o markdownQueue[1].id
                           \o <<"\"", ">", "<", "/", "s", "p", "a", "n", ">">> \o c.after

(* C6: a placeholder inside a quoted attribute (an odd number of " or of '  *)
(* before it) is replaced by the raw string of its value and nothing is    *)
(* queued; the same placeholder in body text is replaced by a marker span  *)
(* and its value is queued exactly once.                                   *)
C6_ContextAwareSubstitution ==
  \A c \in OnePlaceholder :
    (renderPc # "read" /\ template = c.template /\ HasValue(file, c.key))
      => ContextAwareFill(c)

\* each bare-key template with the same template written with file.
BareForms ==
  { [bare |-> <<"<", "i", "m", "g", " ", "s", "r", "c", "=", "\"", "{", "{", "c", "o", "v", "e", "r", "}", "}", "\"", ">">>, prefixed |-> <<"<", "i", "m", "g", " ", "s", "r", "c", "=", "\"", "{", "{", "f", "i", "l", "e", ".", "c", "o", "v", "e", "r", "}", "}", "\"", ">">>],
    [bare |-> <<"<", "p", ">", "{", "{", "c", "o", "v", "e", "r", "}", "}", "<", "/", "p", ">">>,         prefixed |-> <<"<", "p", ">", "{", "{", "f", "i", "l", "e", ".", "c", "o", "v", "e", "r", "}", "}", "<", "/", "p", ">">>],
    [bare |-> <<"<", "h", "1", ">", "{", "{", "t", "i", "t", "l", "e", "}", "}", "<", "/", "h", "1", ">">>,       prefixed |-> <<"<", "h", "1", ">", "{", "{", "f", "i", "l", "e", ".", "t", "i", "t", "l", "e", "}", "}", "<", "/", "h", "1", ">">>],
    [bare |-> <<"{", "{", "g", "e", "n", "r", "e", " ", "|", " ", "j", "o", "i", "n", ":", "\"", ",", " ", "\"", "}", "}">>,  prefixed |-> <<"{", "{", "f", "i", "l", "e", ".", "g", "e", "n", "r", "e", " ", "|", " ", "j", "o", "i", "n", ":", "\"", ",", " ", "\"", "}", "}">>],
    [bare |-> <<"{", "{", "g", "e", "n", "r", "e", "[", "1", "]", "}", "}">>,             prefixed |-> <<"{", "{", "f", "i", "l", "e", ".", "g", "e", "n", "r", "e", "[", "1", "]", "}", "}">>] }

(* C7: a bare-key placeholder is resolved to the frontmatter value of its  *)
(* key, with the index and the filter chain applied as for the file.       *)
(* placeholder of the same key: the template fills to the same markup and  *)
(* queues the same values.                                                 *)
C7_BareKeyPlaceholders ==
  \A b \in BareForms :
    (renderPc # "read" /\ template = b.bare) =>
      /\ filledTemplate = fillTemplate(file, b.prefixed, renderClock).filledTemplate
      /\ markdownQueue = fillTemplate(file, b.prefixed, renderClock).markdownQueue

\* the markup and the queue of a template <a title="P">{{file.basename}}</a>
\* whose placeholder P has been replaced by the text title
MissFill(title) ==
  /\ Len(markdownQueue) = 1
  /\ markdownQueue[1].content = file.basename
  /\ filledTemplate = <<"<", "a", " ", "t", "i", "t", "l", "e", "=", "\"">> \o title \o <<"\"", ">", "<", "s", "p", "a", "n", " ", "i", "d", "=", "\"">>
                      \o markdownQueue[1].id \o <<"\"", ">", "<", "/", "s", "p", "a", "n", ">", "<", "/", "a", ">">>

\* the placeholders whose key is no built-in and no key of any frontmatter
\* of the model, each with a filter chain
MissingKeyTemplates ==
  { <<"<", "a", " ", "t", "i", "t", "l", "e", "=", "\"", "{", "{", "f", "i", "l", "e", ".", "m", "i", "s", "s", "i", "n", "g", " ", "|", " ", "w", "i", "k", "i", "l", "i", "n", "k", "}", "}", "\"", ">", "{", "{", "f", "i", "l", "e", ".", "b", "a", "s", "e", "n", "a", "m", "e", "}", "}", "<", "/", "a", ">">>,
    <<"<", "a", " ", "t", "i", "t", "l", "e", "=", "\"", "{", "{", "f", "i", "l", "e", ".", "t", "o", "S", "t", "r", "i", "n", "g", " ", "|", " ", "w", "i", "k", "i", "l", "i", "n", "k", "}", "}", "\"", ">", "{", "{", "f", "i", "l", "e", ".", "b", "a", "s", "e", "n", "a", "m", "e", "}", "}", "<", "/", "a", ">">>,
    <<"<", "a", " ", "t", "i", "t", "l", "e", "=", "\"", "{", "{", "m", "i", "s", "s", "i", "n", "g", " ", "|", " ", "w", "i", "k", "i", "l", "i", "n", "k", "}", "}", "\"", ">", "{", "{", "f", "i", "l", "e", ".", "b", "a", "s", "e", "n", "a", "m", "e", "}", "}", "<", "/", "a", ">">> }

(* C15: a resolution miss does not abort the render: a placeholder whose   *)
(* key is no built-in and no frontmatter key is replaced by the empty      *)
(* string without running its chain, an index beyond the end of a list     *)
(* gives the empty string, an index on a value that is no list gives the   *)
(* value, and the other placeholder of the template is substituted.        *)
C15_ResolutionMisses ==
  renderPc # "read" =>
    /\ template \in MissingKeyTemplates => MissFill(<<>>)
    /\ template = <<"<", "a", " ", "t", "i", "t", "l", "e", "=", "\"", "{", "{", "f", "i", "l", "e", ".", "g", "e", "n", "r", "e", "[", "5", "]", "}", "}", "\"", ">", "{", "{", "f", "i", "l", "e", ".", "b", "a", "s", "e", "n", "a", "m", "e", "}", "}", "<", "/", "a", ">">>
         => MissFill(<<>>)
    /\ (/\ template = <<"<", "a", " ", "t", "i", "t", "l", "e", "=", "\"", "{", "{", "f", "i", "l", "e", ".", "t", "i", "t", "l", "e", "[", "0", "]", "}", "}", "\"", ">", "{", "{", "f", "i", "l", "e", ".", "b", "a", "s", "e", "n", "a", "m", "e", "}", "}", "<", "/", "a", ">">>
        /\ FrontmatterGet(file, <<"t", "i", "t", "l", "e">>).t \in {"string", "number", "boolean"})
         => MissFill(StringOf(FrontmatterGet(file, <<"t", "i", "t", "l", "e">>)))

\* the marker element the callback returns for {{file.content}}
ContentMarker ==
  <<"<", "d", "i", "v", " ", "i", "d", "=", "\"">> \o contentPlaceholderId(renderClock)
  \o <<"\"", " ", "c", "l", "a", "s", "s", "=", "\"", "m", "a", "r", "k", "d", "o", "w", "n", "-", "r", "e", "n", "d", "e", "r", "e", "d", "-", "c", "o", "n", "t", "e", "n", "t", "\"", ">", "<", "/", "d", "i", "v", ">">>

\* the places of the filled markup where a {{file.content}} placeholder
\* was replaced
ContentSites ==
  {k \in 1..Len(sites) : sites[k].id = contentPlaceholderId(renderClock)}

\* the text of the document after its frontmatter
PostFrontmatter(f) ==
  IF f.hasFrontmatter THEN SubSeq(f.content, f.fmEnd + 1, Len(f.content))
  ELSE f.content

\* the body was rendered into the marker at site k
BodyRenderedInto(k) ==
  /\ htmlState(filledTemplate, sites[k].at) = "text"
  /\ querySelector(filledTemplate, sites, contentPlaceholderId(renderClock)) = k
  /\ \E i \in 1..Len(renderLog) : renderLog[i] = <<"body">>

(* C16: {{file.content}} is never passed through its filter chain and      *)
(* never treated as attribute text: whatever chain follows it and wherever *)
(* it stands in the template, it is replaced by the marker element, and   *)
(* when the call returns the trimmed text after the frontmatter has been   *)
(* rendered as markdown into that element.                                 *)
C16_ContentPlaceholder ==
  renderPc = "done" =>
    \A k \in ContentSites :
      /\ SubSeq(filledTemplate, sites[k].at,
                sites[k].at + Len(ContentMarker) - 1) = ContentMarker
      /\ BodyRenderedInto(k)
      /\ bodyContent = Trim(PostFrontmatter(file))

\* the index in markdownQueue of the item with the given id
QueueIndexOf(id) ==
  CHOOSE i \in 1..Len(markdownQueue) : markdownQueue[i].id = id

\* the entries of renderLog that are markdown renders of queue items
MarkdownEntries == {n \in 1..Len(renderLog) : renderLog[n][1] = "markdown"}

\* the queue items whose render has resolved
RenderedItems == {QueueIndexOf(renderLog[n][2]) : n \in MarkdownEntries}

\* the queue items whose span is an element of the container
FoundItems ==
  {i \in 1..Len(markdownQueue) :
     querySelector(filledTemplate, sites, markdownQueue[i].id) # 0}

\* the place in the filled markup of the span of queue item i
SpanOf(i) ==
  sites[CHOOSE k \in 1..Len(sites) : sites[k].id = markdownQueue[i].id].at

(* C22: within one renderTemplate call the steps are strictly ordered: the *)
(* document is read first, the filled markup is moved into the container   *)
(* before any markdown render, the queued values are rendered one at a     *)
(* time in the order their placeholders appear, each render resolved       *)
(* before the next starts, the body is rendered after all of them and the  *)
(* scripts are executed last.                                              *)
C22_StepsInOrder ==
  /\ renderPc = "read" => renderLog = <<>>
  /\ renderPc # "read" =>
       /\ Len(renderLog) >= 2
       /\ renderLog[1] = <<"read">> /\ renderLog[2] = <<"move">>
       /\ \A n \in 3..Len(renderLog) : renderLog[n][1] \notin {"read", "move"}
  /\ \A i, j \in 1..Len(markdownQueue) : i < j => SpanOf(i) < SpanOf(j)
  /\ \A m, n \in MarkdownEntries :
       m < n => QueueIndexOf(renderLog[m][2]) < QueueIndexOf(renderLog[n][2])
  /\ renderPc = "markdown" =>
       /\ queueIdx \in FoundItems
       /\ RenderedItems = {i \in FoundItems : i < queueIdx}
       /\ \A n \in 3..Len(renderLog) : n \in MarkdownEntries
  /\ renderPc \in {"body", "done"} => RenderedItems = FoundItems
  /\ \A n \in 1..Len(renderLog) :
       renderLog[n] = <<"body">> =>
         /\ \A m \in MarkdownEntries : m < n
         /\ n = Len(renderLog) - 1
  /\ \A n \in 1..Len(renderLog) :
       renderLog[n] = <<"scripts">> => n = Len(renderLog) /\ renderPc = "done"
  /\ renderPc = "done" => renderLog[Len(renderLog)] = <<"scripts">>
  /\ renderPc = "body" => \A n \in 1..Len(renderLog) : renderLog[n] # <<"body">>

\* C22's case: a call has returned after it rendered two queued values and
\* the body
C22_Witness ==
  /\ renderPc = "done"
  /\ Cardinality(MarkdownEntries) = 2
  /\ renderLog[Len(renderLog) - 1] = <<"body">>

(* C23: every occurrence of {{file.content}} in a template gets a marker   *)
(* element of its own, with an id no other occurrence has, and when the    *)
(* call returns the document body has been rendered into each of them: no  *)
(* occurrence is left as an empty marker.                                  *)
C23_EveryContentOccurrence ==
  renderPc = "done" =>
    \A k \in ContentSites :
      /\ \A l \in ContentSites : l # k => sites[l].id # sites[k].id
      /\ BodyRenderedInto(k)
---------------------------------------------------------------------------
(* Properties of overlapping renders, checked under SpecOverlap.           *)

\* the text a call renders into the marker with the given id
contentOfMarker(call, id) ==
  IF id = contentPlaceholderId(call.clock) THEN call.bodyContent
  ELSE LET i == CHOOSE i \in 1..Len(call.queue) : call.queue[i].id = id
       IN  call.queue[i].content

\* what the element shows after the call ran alone on it: its markup, and
\* in each marker that querySelector finds the text rendered for it
ResultOf(call) ==
  [markup |-> call.filled,
   texts  |-> [j \in 1..Len(call.sites) |->
                 IF querySelector(call.filled, call.sites, call.sites[j].id) = j
                 THEN <<contentOfMarker(call, call.sites[j].id)>>
                 ELSE <<>>]]

\* what the element shows
Shown(c) ==
  [markup |-> c.markup, texts |-> [j \in 1..Len(c.nodes) |-> c.nodes[j].text]]

AllReturned == calls # <<>> /\ \A k \in 1..Len(calls) : calls[k].pc = "done"

(* C21: when a renderTemplate call starts while an earlier call on the     *)
(* same element is still in flight, then once all calls have returned the  *)
(* element shows the result of the later call, in whatever order the reads *)
(* and the markdown renders of the calls resolve.                          *)
C21_LaterRenderWins ==
  (AllReturned /\ calls[Len(calls)].overlaps) =>
    Shown(container.content) = ResultOf(calls[Len(calls)])


=============================================================================
